---- MODULE Spec2Model ----
(***************************************************************************)
(* SmolSoft3D: the transform -> near-plane clip -> scan-convert ->         *)
(* depth-tested write pipeline of source/renderer.hpp, with the scalar     *)
(* helpers of math.hpp and the pixel helpers of sdl_extra.hpp.             *)
(*                                                                         *)
(* Every number the renderer computes is a C++ float.  A float is modelled *)
(* bit-exactly as an IEEE-754 binary32 value: the pair <<m, e>> stands for *)
(* m * 2^e with 2^23 <= |m| < 2^24, <<0,0>> is zero, and NaN/+Inf/-Inf are *)
(* the pairs <<0,1>>, <<0,2>>, <<0,3>>.  Each arithmetic operator rounds   *)
(* its exact result to nearest, ties to even, as the hardware does for a   *)
(* single operation (no fused multiply-add, no extended precision).  The   *)
(* exponent is unbounded: the model's inputs stay far from the overflow    *)
(* and subnormal ranges.  The sign of zero is not tracked.                 *)
(***************************************************************************)
EXTENDS Integers, Sequences, FiniteSets, TLC

(***************************************************************************)
(* binary32 arithmetic                                                     *)
(***************************************************************************)
P12 == 2^12
P18 == 2^18
P23 == 2^23
P24 == 2^24

Zero == <<0, 0>>
NaN  == <<0, 1>>
PInf == <<0, 2>>
NInf == <<0, 3>>

IsNaN(x)    == x = NaN
IsInf(x)    == x = PInf \/ x = NInf
IsFinite(x) == x[1] # 0 \/ x[2] = 0

Abs(n) == IF n < 0 THEN -n ELSE n
Sgn(n) == IF n < 0 THEN -1 ELSE IF n > 0 THEN 1 ELSE 0

\* sign of a float that is not NaN: -1, 0 or 1
FSign(x) == IF x = PInf THEN 1 ELSE IF x = NInf THEN -1 ELSE Sgn(x[1])

\* halves M until it is below 2^24; g is the last bit shifted out and st
\* tells whether any bit shifted out before it was set
RECURSIVE ShiftRight(_, _, _, _)
ShiftRight(M, e, g, st) ==
    IF M < P24 THEN <<M, e, g, st>>
    ELSE ShiftRight(M \div 2, e + 1, M % 2, st \/ g = 1)

\* doubles M until it is at least 2^23
RECURSIVE ShiftLeft(_, _, _)
ShiftLeft(s, M, e) == IF M >= P23 THEN <<s * M, e>> ELSE ShiftLeft(s, M * 2, e - 1)

\* round to nearest, ties to even, of the shifted value r = <<M, e, g, st>>
RoundUp(s, r) ==
    IF r[3] = 1 /\ (r[4] \/ r[1] % 2 = 1)
    THEN (IF r[1] + 1 = P24 THEN <<s * P23, r[2] + 1>> ELSE <<s * (r[1] + 1), r[2]>>)
    ELSE <<s * r[1], r[2]>>

\* the float nearest to s * (M + f) * 2^e, where M > 0 is an integer, s is
\* the sign and 0 <= f < 1 with f > 0 exactly when sticky holds (sticky is
\* only passed with M >= 2^25); ties go to the even significand
RoundRNE(s, M, e, sticky) ==
    IF M < P24 THEN ShiftLeft(s, M, e) ELSE RoundUp(s, ShiftRight(M, e, 0, sticky))

\* int -> float conversion
FromInt(n) == IF n = 0 THEN Zero ELSE RoundRNE(Sgn(n), Abs(n), 0, FALSE)

FNeg(x) == IF IsInf(x) THEN <<0, 5 - x[2]>> ELSE <<-x[1], x[2]>>

\* the sum t * 2^e of two aligned significands, less the borrow of the
\* bits the alignment dropped
SumRound(t, borrow, e, st) ==
    IF t = 0 THEN Zero ELSE RoundRNE(Sgn(t), Abs(t) - borrow, e, st)

\* b moved k places right (left when k < 0), truncated toward zero
Shifted(b, k) ==
    IF k <= 0 THEN b * 2^(0 - k) ELSE IF k >= 25 THEN 0 ELSE Sgn(b) * (Abs(b) \div 2^k)

\* whether that move dropped a set bit
Dropped(b, k) == k > 0 /\ (k >= 25 \/ Abs(b) % 2^k # 0)

\* a is x's significand with 5 guard bits; b is y's, k = (x[2] - y[2]) - 5
\* places further right
AddAligned(a, b, k, e) ==
    SumRound(a + Shifted(b, k), IF Dropped(b, k) /\ Sgn(a) # Sgn(b) THEN 1 ELSE 0,
             e, Dropped(b, k))

\* x + y for finite non-zero x, y with x[2] >= y[2]
AddOrdered(x, y) == AddAligned(x[1] * 32, y[1], x[2] - y[2] - 5, x[2] - 5)

FAdd(x, y) ==
    IF x = NaN \/ y = NaN THEN NaN
    ELSE IF IsInf(x) THEN (IF IsInf(y) /\ y # x THEN NaN ELSE x)
    ELSE IF IsInf(y) THEN y
    ELSE IF x = Zero THEN y
    ELSE IF y = Zero THEN x
    ELSE AddOrdered(IF x[2] >= y[2] THEN x ELSE y, IF x[2] >= y[2] THEN y ELSE x)

FSub(x, y) == FAdd(x, FNeg(y))

\* <<top bits, whether a lower bit is set>> of hi * 2^24 + mid * 2^12 + lo
MulJoin(hi, mid, lo) == <<hi * 64 + mid \div 64, mid % 64 # 0 \/ lo # 0>>

\* the 48-bit product (ah * 2^12 + al) * (bh * 2^12 + bl) of two significands
MulLimbs(ah, al, bh, bl) ==
    MulJoin(ah * bh, ah * bl + al * bh + (al * bl) \div P12, (al * bl) % P12)

MulRound(s, p, e) == RoundRNE(s, p[1], e, p[2])

FMul(x, y) ==
    IF x = NaN \/ y = NaN THEN NaN
    ELSE IF IsInf(x) \/ IsInf(y)
         THEN (IF x = Zero \/ y = Zero THEN NaN
               ELSE IF FSign(x) * FSign(y) > 0 THEN PInf ELSE NInf)
    ELSE IF x = Zero \/ y = Zero THEN Zero
    ELSE MulRound(Sgn(x[1]) * Sgn(y[1]),
                  MulLimbs(Abs(x[1]) \div P12, Abs(x[1]) % P12,
                           Abs(y[1]) \div P12, Abs(y[1]) % P12),
                  x[2] + y[2] + 18)

\* long division, 7 quotient bits per step: <<quotient, remainder>>
RECURSIVE DivSteps(_, _, _, _)
DivSteps(q, r, b, n) ==
    IF n = 0 THEN <<q, r>>
    ELSE DivSteps(q * 128 + (r * 128) \div b, (r * 128) % b, b, n - 1)

DivRound(s, d, e) == RoundRNE(s, d[1], e, d[2] # 0)

FDiv(x, y) ==
    IF x = NaN \/ y = NaN THEN NaN
    ELSE IF IsInf(x)
         THEN (IF IsInf(y) THEN NaN
               ELSE IF FSign(x) * (IF y[1] < 0 THEN -1 ELSE 1) > 0 THEN PInf ELSE NInf)
    ELSE IF IsInf(y) THEN Zero
    ELSE IF y = Zero
         THEN (IF x = Zero THEN NaN ELSE IF x[1] > 0 THEN PInf ELSE NInf)
    ELSE IF x = Zero THEN Zero
    ELSE DivRound(Sgn(x[1]) * Sgn(y[1]),
                  DivSteps(Abs(x[1]) \div Abs(y[1]), Abs(x[1]) % Abs(y[1]), Abs(y[1]), 4),
                  x[2] - y[2] - 28)

\* x < y on floats (false when either is NaN)
FLt(x, y) ==
    IF x = NaN \/ y = NaN THEN FALSE
    ELSE IF x = y THEN FALSE
    ELSE IF x = NInf \/ y = PInf THEN TRUE
    ELSE IF x = PInf \/ y = NInf THEN FALSE
    ELSE LET sx == Sgn(x[1])
             sy == Sgn(y[1])
         IN  IF sx # sy THEN sx < sy
             ELSE IF sx > 0
                  THEN x[2] < y[2] \/ (x[2] = y[2] /\ x[1] < y[1])
                  ELSE x[2] > y[2] \/ (x[2] = y[2] /\ x[1] < y[1])

FLe(x, y) == x # NaN /\ y # NaN /\ (x = y \/ FLt(x, y))
FEq(x, y) == x # NaN /\ y # NaN /\ x = y
FNe(x, y) == ~FEq(x, y)

\* std::max(a, b) is (a < b) ? b : a and std::min(a, b) is (b < a) ? b : a
FMax(a, b) == IF FLt(a, b) THEN b ELSE a
FMin(a, b) == IF FLt(b, a) THEN b ELSE a

FAbs(x) == IF x = NInf THEN PInf ELSE IF IsFinite(x) THEN <<Abs(x[1]), x[2]>> ELSE x

\* std::round: to the nearest integer, halves away from zero
FRound(x) ==
    IF ~IsFinite(x) \/ x = Zero \/ x[2] >= 0 THEN x
    ELSE LET k == -x[2]
             a == Abs(x[1])
         IN  IF k > 24 THEN Zero
             ELSE LET q == a \div 2^k
                      r == a % 2^k
                  IN  FromInt(Sgn(x[1]) * (IF r >= 2^(k - 1) THEN q + 1 ELSE q))

\* (int)x for a finite x of magnitude below 2^31: truncation toward zero
Trunc(x) ==
    IF x[2] >= 0 THEN x[1] * 2^(x[2])
    ELSE IF -x[2] >= 24 THEN 0
    ELSE Sgn(x[1]) * (Abs(x[1]) \div 2^(-x[2]))

(***************************************************************************)
(* math.hpp: scalar and vector helpers                                     *)
(***************************************************************************)
One  == <<P23, -23>>
Half == <<P23, -24>>
F255 == <<16711680, -16>>

\* a + p * (b - a)
Lerp(a, b, p) == FAdd(a, FMul(p, FSub(b, a)))

\* (x - a) / (b - a)
InvLerp(x, a, b) == FDiv(FSub(x, a), FSub(b, a))

Remap(x, a, b, c, d) == Lerp(c, d, InvLerp(x, a, b))

\* the glm::vec2 / vec3 / vec4 overloads: a + p * (b - a), componentwise
LerpVec(a, b, p) == [i \in DOMAIN a |-> FAdd(a[i], FMul(p, FSub(b[i], a[i])))]

Clamp(x, a, b) == FMax(FMin(x, b), a)

\* an SDL_Color is a 4-tuple of Uint8 channels; a channel converted from NaN
\* is indeterminate (the conversion is undefined) and is carried as Indet
Indet == 0 - 1
IndetColor == <<Indet, Indet, Indet, Indet>>

ToVec4(color) == [i \in 1..4 |-> FromInt(color[i])]

\* Uint8(k) of a clamped channel: truncation toward zero
Uint8(k) == IF IsFinite(k) THEN Trunc(k) ELSE Indet

ToColor(v) == [i \in 1..4 |-> Uint8(Clamp(v[i], Zero, F255))]

\* one channel of ((a / 255.0f) * (b / 255.0f)) * 255.0f, u = <<a, b>> / 255.0f
BlendUnits(u) == FMul(FMul(u[1], u[2]), F255)

\* an indeterminate channel of a or b stays indeterminate
BlendMask(a, b, c) == [i \in 1..4 |-> IF a[i] = Indet \/ b[i] = Indet THEN Indet ELSE c[i]]

\* ToColor(((ToVec4(a) / 255.0f) * (ToVec4(b) / 255.0f)) * 255.0f)
Blend(a, b) ==
    BlendMask(a, b,
        ToColor([i \in 1..4 |->
                    BlendUnits([k \in 1..2 |-> FDiv(FromInt(<<a, b>>[k][i]), F255)])]))

(***************************************************************************)
(* sdl_extra.hpp: pixel helpers.  A surface is [w, h, px] with px the      *)
(* row-major sequence of its w * h pixel colors.                           *)
(***************************************************************************)
Black == <<0, 0, 0, 255>>

SDL_ReadPixel(surface, x, y) == surface.px[y * surface.w + x + 1]

\* SDL_FillRect of the 1 x 1 rectangle at (x, y); the rectangle is clipped
\* to the surface
SDL_Blit(surface, x, y, color) ==
    IF x >= 0 /\ x < surface.w /\ y >= 0 /\ y < surface.h
    THEN [surface EXCEPT !.px[y * surface.w + x + 1] = color]
    ELSE surface

Min(a, b) == IF a < b THEN a ELSE b

\* the texel at the truncated coordinates (x, y)
SampleAt(surface, x, y) ==
    IF x >= 0 /\ x <= surface.w /\ y >= 0 /\ y <= surface.h
    THEN SDL_ReadPixel(surface, Min(x, surface.w - 1), Min(y, surface.h - 1))
    ELSE Black

\* f = <<Lerp(0, w, u), Lerp(h, 0, v)>>; (int) of a non-finite float is
\* undefined, so the texel is then indeterminate
SampleFloat(surface, f) ==
    IF IsFinite(f[1]) /\ IsFinite(f[2])
    THEN SampleAt(surface, Trunc(f[1]), Trunc(f[2]))
    ELSE IndetColor

\* samples a pixel using normalized coordinates
SDL_Sample(surface, u, v) ==
    SampleFloat(surface,
        [k \in 1..2 |-> Lerp(IF k = 1 THEN Zero ELSE FromInt(surface.h),
                             IF k = 1 THEN FromInt(surface.w) ELSE Zero,
                             <<u, v>>[k])])

(***************************************************************************)
(* renderer.hpp: Vertex3D, Triangle3D                                      *)
(* A vertex is [pos, color, uv]: tuples of 4, 4 and 2 floats.  A triangle  *)
(* is the tuple of its 3 vertices.                                         *)
(***************************************************************************)
Vertex3D(pos, color, uv) == [pos |-> pos, color |-> color, uv |-> uv]

\* Vertex3D(vec3 pos, SDL_Color color, vec2 uv)
MkVertex(x, y, z, color, uv) ==
    Vertex3D(<<x, y, z, One>>, ToVec4(color), uv)

\* every value of v multiplied by w, and w stored in pos.w
InterpBy(v, w) ==
    Vertex3D([i \in 1..4 |-> IF i = 4 THEN w ELSE FMul(v.pos[i], w)],
             [i \in 1..4 |-> FMul(v.color[i], w)],
             [i \in 1..2 |-> FMul(v.uv[i], w)])

\* stores 1 / pos.z in pos.w and multiplies every other value by it
Interp(v) == InterpBy(v, FDiv(One, v.pos[3]))

\* divides every value by pos.w and stores 1 in pos.w
Restore(v) ==
    Vertex3D([i \in 1..4 |-> IF i = 4 THEN One ELSE FDiv(v.pos[i], v.pos[4])],
             [i \in 1..4 |-> FDiv(v.color[i], v.pos[4])],
             [i \in 1..2 |-> FDiv(v.uv[i], v.pos[4])])

LerpVertex(a, b, p) ==
    Vertex3D(LerpVec(a.pos, b.pos, p), LerpVec(a.color, b.color, p), LerpVec(a.uv, b.uv, p))

\* glm::sign of the dot product d; NaN has no sign and the conversion of
\* glm::sign(NaN) to int is then 0 or undefined: carried as 0
SignOf(d) == IF d = NaN THEN 0 ELSE FSign(d)

\* dot(normal, span02) with normal = (span01.y, -span01.x); s = <<span01, span02>>
NormalDot(s) == FAdd(FMul(s[1][2], s[2][1]), FMul(FNeg(s[1][1]), s[2][2]))

\* sign of dot((span01.y, -span01.x), span02)
\* variant: the two spans exchanged, the sign of dot((span02.y, -span02.x), span01)
GetWindingOrderCross(t) ==
    SignOf(NormalDot([j \in 1..2 |-> [k \in 1..2 |-> FSub(t[3 - j + 1].pos[k], t[1].pos[k])]]))

GetWindingOrder(t) ==
    SignOf(NormalDot([j \in 1..2 |-> [k \in 1..2 |-> FSub(t[j + 1].pos[k], t[1].pos[k])]]))

(***************************************************************************)
(* renderer.hpp: Target.  A target is [surface, depth_buffer]; the depth   *)
(* buffer has one float per surface pixel, in row-major order.             *)
(***************************************************************************)
\* variant: the depth test passes on equal depth as well
TargetBlitLe(target, x, y, depth, color) ==
    IF x >= 0 /\ x < target.surface.w /\ y >= 0 /\ y < target.surface.h
    THEN IF FLe(depth, target.depth_buffer[y * target.surface.w + x + 1])
         THEN [surface      |-> SDL_Blit(target.surface, x, y, color),
               depth_buffer |-> [target.depth_buffer EXCEPT
                                    ![y * target.surface.w + x + 1] = depth]]
         ELSE target
    ELSE target

\* variant: the color is written before the depth test is made
TargetBlitEager(target, x, y, depth, color) ==
    IF x >= 0 /\ x < target.surface.w /\ y >= 0 /\ y < target.surface.h
    THEN IF FLt(depth, target.depth_buffer[y * target.surface.w + x + 1])
         THEN [surface      |-> SDL_Blit(target.surface, x, y, color),
               depth_buffer |-> [target.depth_buffer EXCEPT
                                    ![y * target.surface.w + x + 1] = depth]]
         ELSE [target EXCEPT !.surface = SDL_Blit(target.surface, x, y, color)]
    ELSE target

TargetBlit(target, x, y, depth, color) ==
    IF x >= 0 /\ x < target.surface.w /\ y >= 0 /\ y < target.surface.h
    THEN IF FLt(depth, target.depth_buffer[y * target.surface.w + x + 1])
         THEN [surface      |-> SDL_Blit(target.surface, x, y, color),
               depth_buffer |-> [target.depth_buffer EXCEPT
                                    ![y * target.surface.w + x + 1] = depth]]
         ELSE target
    ELSE target

\* variant: the depth buffer is filled with zeros
ClearDepthZero(target) ==
    [target EXCEPT !.depth_buffer = [i \in DOMAIN target.depth_buffer |-> Zero]]

ClearDepth(target) ==
    [target EXCEPT !.depth_buffer = [i \in DOMAIN target.depth_buffer |-> One]]

ClearSurface(target, color) ==
    [target EXCEPT !.surface.px = [i \in DOMAIN target.surface.px |-> color]]

\* Target(surface): the depth buffer is sized to the surface and filled with 1
NewTarget(surface) ==
    [surface |-> surface, depth_buffer |-> [i \in 1..(surface.w * surface.h) |-> One]]

(***************************************************************************)
(* renderer.hpp: Renderer3D::BlitTriangle.  The operator returns the       *)
(* sequence of Target::Blit calls the rasterizer makes, in call order;     *)
(* each call is [x, y, depth, color] plus the interpolated texture         *)
(* coordinate uv, the interpolated view depth z, and the divisors den it   *)
(* was computed from.  sampler is a                                        *)
(* surface, or NoSampler for nullptr; clip is the <<width, height>> clip   *)
(* rectangle.                                                              *)
(***************************************************************************)
NoSampler == [w |-> 0, h |-> 0, px |-> <<>>]

\* variant: 20000.0f
DepthScaleDouble == <<10240000, -9>>

\* 10000.0f
DepthScale == <<10240000, -10>>

\* if (sampler != nullptr) color = Blend(color, SDL_Sample(sampler, uv.x, uv.y))
Shade(smp, color, uv) ==
    IF smp # NoSampler THEN Blend(color, SDL_Sample(smp, uv[1], uv[2])) ELSE color

\* target.Blit(xx, yy, vertex.pos.z / 10000.0f, color)
Fragment(c, xx, yy, vertex) ==
    [x |-> xx, y |-> yy, depth |-> FDiv(vertex.pos[3], DepthScale),
     color |-> Shade(c.sampler, ToColor(vertex.color), vertex.uv), uv |-> vertex.uv,
     z |-> vertex.pos[3]]

\* the body of the inner loop for progress p = <<xp, yp>>
ScanPixelAt(c, x, p) ==
    Fragment(c, Trunc(x), Trunc(Lerp(c.y1, c.y2, p[2])),
             Restore(LerpVertex(c.t_vert_i, LerpVertex(c.l_vert_i, c.r_vert_i, p[1]), p[2])))

\* the body of the inner loop: one pixel of row y, column x.  The call is
\* recorded with den, the divisors x2 - x1 and height - 0 of its two InvLerp,
\* and with row, the loop variable y and the edges x1, x2 of its row
ScanPixel(c, y, x1, x2, x) ==
    [den |-> <<FSub(x2, x1), FSub(c.height, Zero)>>, row |-> <<y, x1, x2>>]
    @@ ScanPixelAt(c, x, [k \in 1..2 |-> InvLerp(<<x, y>>[k], <<x1, Zero>>[k], <<x2, c.height>>[k])])

\* for (x = ...; x <= xmax; x += 1.0f)
RECURSIVE ScanColumns(_, _, _, _, _, _)
ScanColumns(c, y, x1, x2, x, xmax) ==
    IF FLe(x, xmax)
    THEN <<ScanPixel(c, y, x1, x2, x)>> \o ScanColumns(c, y, x1, x2, FAdd(x, One), xmax)
    ELSE <<>>

\* variant: the columns from x1 to x2, whatever the clip rectangle
ScanEdgesUnclipped(c, y, e) == ScanColumns(c, y, e[1], e[2], e[1], e[2])

\* the columns of the row with edges e = <<x1, x2>>
ScanEdges(c, y, e) ==
    ScanColumns(c, y, e[1], e[2], FMax(e[1], Half), FMin(e[2], FSub(c.clip[1], Half)))

\* one iteration of the outer loop: the row's edges, then its columns
ScanRow(c, y) ==
    ScanEdges(c, y, [k \in 1..2 |->
        FRound(Remap(y, Zero, c.height, c.t_vert.pos[1], <<c.l_vert, c.r_vert>>[k].pos[1]))])

\* for (y = ...; y <= ymax; y += 1.0f)
RECURSIVE ScanRows(_, _, _)
ScanRows(c, y, ymax) ==
    IF FLe(y, ymax)
    THEN ScanRow(c, y) \o ScanRows(c, FAdd(y, One), ymax)
    ELSE <<>>

\* r = <<round(Remap(0, ...)), round(Remap(clip.y, ...))>>: the loop from
\* max(0.5, t_clip) to min(height, b_clip)
ScanClipped(c, r) ==
    IF FLt(c.y1, c.y2)
    THEN ScanRows(c, FMax(Half, FAdd(r[1], Half)), FMin(c.height, FSub(r[2], Half)))
    ELSE ScanRows(c, FMax(Half, FAdd(r[2], Half)), FMin(c.height, FSub(r[1], Half)))

\* the loops over the rows of the flat triangle with context c
ScanFlat(c) ==
    ScanClipped(c, [k \in 1..2 |->
        FRound(Remap(<<Zero, c.clip[2]>>[k], c.y1, c.y2, Zero, c.height))])

\* the locals of the flat case: lr = <<l_vert, r_vert>>, i = their Interp()
FlatContext(clip, verts, sampler, lr, i, height) ==
    [t_vert |-> verts[1], l_vert |-> lr[1], r_vert |-> lr[2],
     t_vert_i |-> i[1], l_vert_i |-> i[2], r_vert_i |-> i[3],
     y1 |-> verts[1].pos[2], y2 |-> verts[2].pos[2], height |-> height,
     clip |-> clip, sampler |-> sampler]

FlatSides(clip, verts, sampler, lr) ==
    ScanFlat(FlatContext(clip, verts, sampler, lr,
                         [k \in 1..3 |-> Interp(<<verts[1], lr[1], lr[2]>>[k])],
                         FAbs(FSub(FRound(verts[2].pos[2]), FRound(verts[1].pos[2])))))

\* variant: the pixel row rounded to the nearest
RowPixelNearest(c, y) == Trunc(FRound(Lerp(c.y1, c.y2, InvLerp(y, Zero, c.height))))

\* yy = (int)(Lerp(y1, y2, yp)) with yp = InvLerp(y, 0.0, height): the pixel
\* row of the scan row y
RowPixel(c, y) == Trunc(Lerp(c.y1, c.y2, InvLerp(y, Zero, c.height)))

\* for (y = ...; y <= ymax; y += 1.0f): the pixel row of each iteration
RECURSIVE RowsFrom(_, _, _)
RowsFrom(c, y, ymax) ==
    IF FLe(y, ymax)
    THEN <<RowPixel(c, y)>> \o RowsFrom(c, FAdd(y, One), ymax)
    ELSE <<>>

\* the outer loop from max(0.5, t_clip) to min(height, b_clip), for
\* r = <<round(Remap(0, ...)), round(Remap(clip.y, ...))>>
FlatRows(c, r) ==
    IF FLt(c.y1, c.y2)
    THEN RowsFrom(c, FMax(Half, FAdd(r[1], Half)), FMin(c.height, FSub(r[2], Half)))
    ELSE RowsFrom(c, FMax(Half, FAdd(r[2], Half)), FMin(c.height, FSub(r[1], Half)))

\* the pixel rows the flat case scans, in order, for y1 = verts[0].y,
\* y2 = verts[1].y and height = |round(y2) - round(y1)|
FillRowsOf(c) ==
    FlatRows(c, [k \in 1..2 |->
        FRound(Remap(<<Zero, c.clip[2]>>[k], c.y1, c.y2, Zero, c.height))])

FillRows(clip, verts) ==
    FillRowsOf([y1 |-> verts[1].pos[2], y2 |-> verts[2].pos[2], clip |-> clip,
                height |-> FAbs(FSub(FRound(verts[2].pos[2]), FRound(verts[1].pos[2])))])

\* the flat case: verts[1].y == verts[2].y and verts[0] is the apex
FillFlat(clip, verts, sampler) ==
    FlatSides(clip, verts, sampler,
              IF FLt(verts[2].pos[1], verts[3].pos[1])
              THEN <<verts[2], verts[3]>> ELSE <<verts[3], verts[2]>>)

\* if (b.y < a.y) swap(a, b), for the vertices at places i and i + 1
SwapIf(v, i) ==
    IF FLt(v[i + 1].pos[2], v[i].pos[2])
    THEN [k \in 1..3 |-> IF k = i THEN v[i + 1] ELSE IF k = i + 1 THEN v[i] ELSE v[k]]
    ELSE v

\* the three conditional swaps that sort the vertices by y
SortByY(verts) == SwapIf(SwapIf(SwapIf(verts, 1), 2), 1)

\* vert4 = Lerp(vert1->Interp(), vert3->Interp(), p).Restore() with its x
\* and y adjusted; i = <<vert1->Interp(), vert3->Interp()>>
SplitAt(s, i, p) ==
    [Restore(LerpVertex(i[1], i[2], p))
        EXCEPT !.pos[1] = Lerp(s[1].pos[1], s[3].pos[1], p), !.pos[2] = s[2].pos[2]]

\* the extra vertex on the edge vert1-vert3 at vert2's height
SplitVertex(s) ==
    SplitAt(s, [k \in 1..2 |-> Interp(s[2 * k - 1])],
            InvLerp(s[2].pos[2], s[1].pos[2], s[3].pos[2]))

\* variant: the mirrored order draws the lower triangle only
SplitOrderedLower(s, vert4, order) ==
    IF order = 1
    THEN << <<s[1], s[2], vert4>>, <<s[2], s[3], vert4>> >>
    ELSE IF order = -1
    THEN << <<s[3], s[2], vert4>> >>
    ELSE <<>>

\* the two triangles drawn for the sorted vertices s and the extra vertex
SplitOrdered(s, vert4, order) ==
    IF order = 1
    THEN << <<s[1], s[2], vert4>>, <<s[2], s[3], vert4>> >>
    ELSE IF order = -1
    THEN << <<s[2], s[1], vert4>>, <<s[3], s[2], vert4>> >>
    ELSE <<>>

SplitSorted(s) == SplitOrdered(s, SplitVertex(s), GetWindingOrder(s))

\* the two triangles a general triangle is split into, in call order
SplitTriangles(verts) == SplitSorted(SortByY(verts))

\* the winding order the rasterizer draws; every other one is culled
DrawnWinding == 1

\* the shape of the triangle by the equalities of its vertices' y
Shape(ya, yb, yc) ==
    IF FEq(ya, yb) /\ FEq(yb, yc) THEN "flat"
    ELSE IF FNe(ya, yb) /\ FNe(yb, yc) /\ FNe(yc, ya) THEN "general"
    ELSE IF FNe(ya, yb) /\ FEq(yb, yc) THEN "fill"
    ELSE IF FEq(ya, yb) THEN "rotate2" ELSE "rotate1"

RECURSIVE BlitTriangle(_, _, _)
RECURSIVE BlitEach(_, _, _, _)

\* BlitTriangle on each triangle of a sequence, in order
BlitEach(clip, tris, sampler, i) ==
    IF i > Len(tris) THEN <<>>
    ELSE BlitTriangle(clip, tris[i], sampler) \o BlitEach(clip, tris, sampler, i + 1)

\* the branch of BlitTriangle taken for a triangle that passed the rejections
BlitShape(clip, verts, sampler, shape) ==
    IF shape = "general" THEN BlitEach(clip, SplitTriangles(verts), sampler, 1)
    ELSE IF shape = "fill" THEN FillFlat(clip, verts, sampler)
    ELSE IF shape = "rotate2"
    THEN BlitTriangle(clip, <<verts[3], verts[1], verts[2]>>, sampler)
    ELSE BlitTriangle(clip, <<verts[2], verts[3], verts[1]>>, sampler)

\* variant: only triangles with all three vertices on one y are rejected
RejectedFlat(verts) ==
    FEq(verts[1].pos[2], verts[2].pos[2]) /\ FEq(verts[2].pos[2], verts[3].pos[2])

\* the three early returns of BlitTriangle
Rejected(verts) ==
    \/ FEq(verts[1].pos[2], verts[2].pos[2]) /\ FEq(verts[2].pos[2], verts[3].pos[2])
    \/ GetWindingOrder(verts) # DrawnWinding
    \/ \E k \in 1..3 : FLe(verts[k].pos[3], Zero)

BlitTriangle(clip, verts, sampler) ==
    IF Rejected(verts) THEN <<>>
    ELSE BlitShape(clip, verts, sampler,
                   Shape(verts[1].pos[2], verts[2].pos[2], verts[3].pos[2]))

\* the branch a BlitTriangle call takes
Branch(verts) ==
    IF Rejected(verts) THEN "reject"
    ELSE Shape(verts[1].pos[2], verts[2].pos[2], verts[3].pos[2])

RECURSIVE BlitTriangleCalls(_, _)
RECURSIVE BlitEachCalls(_, _, _)

BlitEachCalls(tris, level, i) ==
    IF i > Len(tris) THEN <<>>
    ELSE BlitTriangleCalls(tris[i], level) \o BlitEachCalls(tris, level, i + 1)

\* the BlitTriangle calls a BlitTriangle call at the given recursion level
\* gives rise to, itself first, in call order: [level, branch, verts]
BlitTriangleCalls(verts, level) ==
    <<[level |-> level, branch |-> Branch(verts), verts |-> verts]>>
    \o (IF Branch(verts) = "general"
        THEN BlitEachCalls(SplitTriangles(verts), level + 1, 1)
        ELSE IF Branch(verts) = "rotate2"
        THEN BlitTriangleCalls(<<verts[3], verts[1], verts[2]>>, level + 1)
        ELSE IF Branch(verts) = "rotate1"
        THEN BlitTriangleCalls(<<verts[2], verts[3], verts[1]>>, level + 1)
        ELSE <<>>)

\* the target after the Blit calls of a sequence, applied in order from i:
\* each call has returned, and the target is as it left it, before the next
RECURSIVE ApplyBlits(_, _, _)
ApplyBlits(target, calls, i) ==
    IF i > Len(calls) THEN target
    ELSE LET written == TargetBlit(target, calls[i].x, calls[i].y, calls[i].depth, calls[i].color)
         IN  IF DOMAIN written = DOMAIN target
             THEN ApplyBlits(written, calls, i + 1)
             ELSE target

(***************************************************************************)
(* renderer.hpp: projection, near-plane clipper, orchestrator.             *)
(* A screen is [width, height, fov] (floats); a camera is [pos, pitch,     *)
(* yaw] with pos a 3-tuple of floats and the angles in degrees.            *)
(***************************************************************************)
MinusOne == <<-P23, -23>>
Two      == <<P23, -22>>
\* 90.0f
F90      == <<11796480, -17>>

\* the vec4 (p, 1) a Vertex3D is constructed with from the vec3 p
Vec4(p) == <<p[1], p[2], p[3], One>>

\* ScaleToScreen with fov_factor = f and diff / 2.0f = half
ScaleBy(pos, screen, f, half) ==
    [k \in 1..3 |->
        IF k = 3 THEN pos[3]
        ELSE Remap(FDiv(pos[k], FMul(pos[3], f)), MinusOne, One,
                   IF k = 1 THEN half ELSE screen.height,
                   IF k = 1 THEN FAdd(screen.height, half) ELSE Zero)]

\* scales a 3D point from view space to screen space
ScaleToScreen(pos, screen) ==
    ScaleBy(pos, screen, FDiv(screen.fov, F90), FDiv(FSub(screen.width, screen.height), Two))

\* scales a 3D triangle from view space to screen space
ScaleToScreenTri(verts, screen) ==
    [i \in 1..3 |->
        Vertex3D(Vec4(ScaleToScreen(verts[i].pos, screen)), verts[i].color, verts[i].uv)]

\* distance from the camera at which triangles get clipped: 0.1f
clip_plane == <<13421773, -27>>

\* variant: a vertex on the plane is clipped too
IsClippedOnPlane(v) == FLe(v.pos[3], clip_plane)

IsClipped(v) == FLt(v.pos[3], clip_plane)

\* The vertices of the emitted triangles are named by <<a, b, kind>>:
\* "v" is verts[a]; "to" is Lerp(verts[a], verts[b], InvLerp(clip_plane,
\* verts[a].pos.z, verts[b].pos.z)); "mid" is Lerp(verts[a], verts[b], 0.5f)
V(a)      == <<a, a, "v">>
To(a, b)  == <<a, b, "to">>
Mid(a, b) == <<a, b, "mid">>

\* variant: with one vertex clipped, the remaining quad is cut in two
ClipPlanQuad(c) ==
    IF c[1] /\ c[2] /\ c[3] THEN <<>>
    ELSE IF c[1] /\ ~c[2] /\ ~c[3]
    THEN << <<To(1, 2), V(2), V(3)>>, <<To(1, 3), To(1, 2), V(3)>> >>
    ELSE IF ~c[1] /\ c[2] /\ ~c[3]
    THEN << <<To(2, 1), V(3), V(1)>>, <<To(2, 3), V(3), To(2, 1)>> >>
    ELSE IF ~c[1] /\ ~c[2] /\ c[3]
    THEN << <<To(3, 1), V(1), V(2)>>, <<To(3, 2), To(3, 1), V(2)>> >>
    ELSE IF ~c[1] /\ c[2] /\ c[3] THEN << <<V(1), To(1, 2), To(1, 3)>> >>
    ELSE IF c[1] /\ ~c[2] /\ c[3] THEN << <<V(2), To(2, 3), To(2, 1)>> >>
    ELSE IF c[1] /\ c[2] /\ ~c[3] THEN << <<V(3), To(3, 1), To(3, 2)>> >>
    ELSE << <<V(1), V(2), V(3)>> >>

\* variant: the second two-clipped branch lists its intersections in the
\* order of the first
ClipPlanSwapped(c) ==
    IF c[1] /\ c[2] /\ c[3] THEN <<>>
    ELSE IF c[1] /\ ~c[2] /\ ~c[3]
    THEN << <<To(1, 2), V(2), Mid(2, 3)>>, <<To(1, 3), To(1, 2), Mid(2, 3)>>,
            <<To(1, 3), Mid(2, 3), V(3)>> >>
    ELSE IF ~c[1] /\ c[2] /\ ~c[3]
    THEN << <<To(2, 1), Mid(1, 3), V(1)>>, <<To(2, 3), Mid(1, 3), To(2, 1)>>,
            <<To(2, 3), V(3), Mid(1, 3)>> >>
    ELSE IF ~c[1] /\ ~c[2] /\ c[3]
    THEN << <<To(3, 1), V(1), Mid(1, 2)>>, <<To(3, 2), To(3, 1), Mid(1, 2)>>,
            <<To(3, 2), Mid(1, 2), V(2)>> >>
    ELSE IF ~c[1] /\ c[2] /\ c[3] THEN << <<V(1), To(1, 2), To(1, 3)>> >>
    ELSE IF c[1] /\ ~c[2] /\ c[3] THEN << <<V(2), To(2, 1), To(2, 3)>> >>
    ELSE IF c[1] /\ c[2] /\ ~c[3] THEN << <<V(3), To(3, 1), To(3, 2)>> >>
    ELSE << <<V(1), V(2), V(3)>> >>

\* the triangles each branch of BlitClippedTriangle builds, in call order,
\* for c = <<vert0_clip, vert1_clip, vert2_clip>>
ClipPlan(c) ==
    IF c[1] /\ c[2] /\ c[3] THEN <<>>
    ELSE IF c[1] /\ ~c[2] /\ ~c[3]
    THEN << <<To(1, 2), V(2), Mid(2, 3)>>, <<To(1, 3), To(1, 2), Mid(2, 3)>>,
            <<To(1, 3), Mid(2, 3), V(3)>> >>
    ELSE IF ~c[1] /\ c[2] /\ ~c[3]
    THEN << <<To(2, 1), Mid(1, 3), V(1)>>, <<To(2, 3), Mid(1, 3), To(2, 1)>>,
            <<To(2, 3), V(3), Mid(1, 3)>> >>
    ELSE IF ~c[1] /\ ~c[2] /\ c[3]
    THEN << <<To(3, 1), V(1), Mid(1, 2)>>, <<To(3, 2), To(3, 1), Mid(1, 2)>>,
            <<To(3, 2), Mid(1, 2), V(2)>> >>
    ELSE IF ~c[1] /\ c[2] /\ c[3] THEN << <<V(1), To(1, 2), To(1, 3)>> >>
    ELSE IF c[1] /\ ~c[2] /\ c[3] THEN << <<V(2), To(2, 3), To(2, 1)>> >>
    ELSE IF c[1] /\ c[2] /\ ~c[3] THEN << <<V(3), To(3, 1), To(3, 2)>> >>
    ELSE << <<V(1), V(2), V(3)>> >>

\* variant: the progress along a cut edge is taken from its far end
ClipVertexFromFar(verts, n) ==
    IF n[3] = "v" THEN verts[n[1]]
    ELSE LerpVertex(verts[n[1]], verts[n[2]],
                    IF n[3] = "mid" THEN Half
                    ELSE InvLerp(clip_plane, verts[n[2]].pos[3], verts[n[1]].pos[3]))

\* the vertex named n
ClipVertex(verts, n) ==
    IF n[3] = "v" THEN verts[n[1]]
    ELSE LerpVertex(verts[n[1]], verts[n[2]],
                    IF n[3] = "mid" THEN Half
                    ELSE InvLerp(clip_plane, verts[n[1]].pos[3], verts[n[2]].pos[3]))

ClipBuild(verts, plan) ==
    [i \in 1..Len(plan) |-> [j \in 1..3 |-> ClipVertex(verts, plan[i][j])]]

\* the view-space triangles BlitClippedTriangle passes on, in call order
ClipTriangles(verts) == ClipBuild(verts, ClipPlan([k \in 1..3 |-> IsClipped(verts[k])]))

ScaleEach(screen, ts) == [i \in 1..Len(ts) |-> ScaleToScreenTri(ts[i], screen)]

\* the screen-space triangles handed to BlitTriangle, in call order
EmittedTriangles(screen, verts) == ScaleEach(screen, ClipTriangles(verts))

\* clips the view-space triangle to the near plane, scales the pieces to
\* screen space and blits them: the Target::Blit calls made, in order
BlitClippedTriangle(screen, verts, sampler) ==
    BlitEach(<<screen.width, screen.height>>, EmittedTriangles(screen, verts), sampler, 1)

(***************************************************************************)
(* renderer.hpp: TranslateToView, BlitWorldTriangle, Blit3DModel           *)
(***************************************************************************)
\* glm::radians: degrees * 0.01745329251994329576923690768489f
Radians(deg) == FMul(deg, <<9370165, -29>>)

\* the angles the model's cameras use, in degrees, and their float radians
Deg0   == Zero
Deg90  == F90
Deg180 == <<11796480, -16>>
Rad90  == <<13176795, -23>>
Rad180 == <<13176795, -22>>

\* cos and sin of those radian values, as the C library returns them for
\* those floats
Cos(r) ==
    IF r = Zero THEN One
    ELSE IF r = Rad90 THEN <<-12303662, -48>>
    ELSE IF r = Rad180 THEN MinusOne
    ELSE NaN

Sin(r) ==
    IF r = Zero THEN Zero
    ELSE IF r = Rad90 THEN One
    ELSE IF r = Rad180 THEN <<-12303662, -47>>
    ELSE NaN

\* x' = x cos + z sin, z' = -x sin + z cos
RotateYBy(v, c, s) ==
    << FAdd(FMul(v[1], c), FMul(v[3], s)), v[2],
       FAdd(FMul(FNeg(v[1]), s), FMul(v[3], c)) >>

\* glm::rotateY
RotateY(v, angle) == RotateYBy(v, Cos(angle), Sin(angle))

\* y' = y cos - z sin, z' = y sin + z cos
RotateXBy(v, c, s) ==
    << v[1], FSub(FMul(v[2], c), FMul(v[3], s)),
       FAdd(FMul(v[2], s), FMul(v[3], c)) >>

\* glm::rotateX
RotateX(v, angle) == RotateXBy(v, Cos(angle), Sin(angle))

\* translates the given point from world space to view space
TranslateToView(pos, camera) ==
    RotateX(RotateY([k \in 1..3 |-> FSub(pos[k], camera.pos[k])], Radians(camera.pitch)),
            Radians(camera.yaw))

\* glm mat4 * vec4; m is the tuple of the 4 columns:
\* (m[0] * v.x + m[1] * v.y) + (m[2] * v.z + m[3] * v.w)
MatMulVec(m, v) ==
    [i \in 1..4 |-> FAdd(FAdd(FMul(m[1][i], v[1]), FMul(m[2][i], v[2])),
                         FAdd(FMul(m[3][i], v[3]), FMul(m[4][i], v[4])))]

\* glm::translate(glm::mat4(1.0f), (x, y, z))
Translation(x, y, z) ==
    << <<One, Zero, Zero, Zero>>, <<Zero, One, Zero, Zero>>,
       <<Zero, Zero, One, Zero>>, <<x, y, z, One>> >>

Identity == Translation(Zero, Zero, Zero)

\* the view-space triangle BlitWorldTriangle passes to the clipper
WorldToView(camera, verts, transform) ==
    [i \in 1..3 |->
        Vertex3D(Vec4(TranslateToView(MatMulVec(transform, verts[i].pos), camera)),
                 verts[i].color, verts[i].uv)]

BlitWorldTriangle(camera, screen, verts, transform, sampler) ==
    BlitClippedTriangle(screen, WorldToView(camera, verts, transform), sampler)

\* for (auto& triangle: model.triangles): the Blit calls made, in order
RECURSIVE Blit3DModelFrom(_, _, _, _, _, _)
Blit3DModelFrom(camera, screen, model, transform, sampler, i) ==
    IF i > Len(model) THEN <<>>
    ELSE BlitWorldTriangle(camera, screen, model[i], transform, sampler)
         \o Blit3DModelFrom(camera, screen, model, transform, sampler, i + 1)

Blit3DModel(camera, screen, model, transform, sampler) ==
    Blit3DModelFrom(camera, screen, model, transform, sampler, 1)

(***************************************************************************)
(* The renderer as a state machine: one target, one renderer, and the      *)
(* operations a caller can apply to them.                                  *)
(***************************************************************************)
VARIABLES
    target,     \* the Target: surface pixels and depth buffer
    sampler,    \* Renderer3D::sampler: 0 is nullptr, k > 0 is Textures[k]
    calls,      \* history: the Target::Blit calls and the ClearSurface calls
                \* made since the last ClearDepth
    last,       \* history: the last operation, its argument, the target before it
    nops,       \* number of operations applied so far
    inp,        \* the input of the function under study (function studies)
    out,        \* its result
    memo        \* the Blit calls of each draw the caller can make, computed once

vars == <<target, sampler, calls, last, nops, inp, out, memo>>

\* bounds of the model
TargetW == 4
TargetH == 4
MaxOps  == 3

Red    == <<255, 0, 0, 255>>
Green  == <<0, 255, 0, 255>>
Blue   == <<0, 0, 255, 255>>
Gray   == <<128, 128, 128, 255>>
Orange == <<200, 100, 50, 255>>

Textures ==
    << [w |-> 1, h |-> 1, px |-> <<Gray>>],
       [w |-> 2, h |-> 2, px |-> <<Red, Green, Blue, Gray>>] >>

SurfaceOf(ptr) == IF ptr = 0 THEN NoSampler ELSE Textures[ptr]

BlankSurface == [w |-> TargetW, h |-> TargetH, px |-> [i \in 1..(TargetW * TargetH) |-> Black]]

TargetClip == <<FromInt(TargetW), FromInt(TargetH)>>

UV0 == <<Zero, Zero>>

\* screen-space vertex at integer position with integer depth
SV(x, y, z, color, uv) == MkVertex(FromInt(x), FromInt(y), FromInt(z), color, uv)

\* the screen-space triangles the caller draws with BlitTriangle
ScreenTris ==
    << <<SV(4, 0, 2, Red, UV0),   SV(0, 0, 2, Red, UV0),   SV(2, 4, 2, Red, UV0)>>,
       <<SV(4, 0, 5, Green, UV0), SV(0, 0, 5, Green, UV0), SV(2, 4, 5, Green, UV0)>>,
       <<SV(4, 0, 2, Blue, UV0),  SV(0, 0, 2, Blue, UV0),  SV(2, 4, 2, Blue, UV0)>>,
       <<SV(4, 0, 10000, Gray, UV0), SV(0, 0, 10000, Gray, UV0), SV(2, 4, 10000, Gray, UV0)>>,
       <<SV(0, 0, 1, Orange, UV0), SV(1, 4, 3, Orange, <<One, Zero>>),
         SV(5, 1, 2, Orange, <<Zero, One>>)>>,
       <<SV(0, 0, 2, Red, UV0),   SV(4, 0, 2, Red, UV0),   SV(2, 4, 2, Red, UV0)>> >>

\* an entry of the history: a Target::Blit call, or a ClearSurface
CallOf(f) == [op |-> "Blit", x |-> f.x, y |-> f.y, depth |-> f.depth, color |-> f.color]

CallsOf(fs) == [i \in 1..Len(fs) |-> CallOf(fs[i])]

\* the Blit calls of BlitTriangle for each of them under each sampler, as
\* their x, y, depth and color; TriBlits[s + 1][i] is for sampler s and
\* triangle i
TriBlits ==
    [k \in 1..(Len(Textures) + 1) |->
        [i \in 1..Len(ScreenTris) |->
            CallsOf(BlitTriangle(TargetClip, ScreenTris[i], SurfaceOf(k - 1)))]]

\* world-space vertex at integer position
WV(x, y, z, color, uv) == MkVertex(FromInt(x), FromInt(y), FromInt(z), color, uv)

Models ==
    << <<>>,
       << <<WV(-1, -1, 2, Green, UV0), WV(1, -1, 2, Green, UV0), WV(0, 1, 2, Green, UV0)>> >>,
       << <<WV(-1, -1, 3, Blue, UV0), WV(1, -1, 3, Blue, UV0), WV(0, 1, 0, Blue, <<One, One>>)>>,
          <<WV(-2, -1, 1, Orange, UV0), WV(1, -1, 1, Orange, UV0), WV(0, 2, 1, Orange, UV0)>> >> >>

Cameras ==
    << [pos |-> <<Zero, Zero, Zero>>, pitch |-> Deg0, yaw |-> Deg0],
       [pos |-> <<Zero, Zero, FromInt(-1)>>, pitch |-> Deg0, yaw |-> Deg0],
       [pos |-> <<Zero, Zero, FromInt(4)>>, pitch |-> Deg180, yaw |-> Deg0] >>

Screens ==
    << [width |-> FromInt(TargetW), height |-> FromInt(TargetH), fov |-> FromInt(90)],
       [width |-> FromInt(TargetW), height |-> FromInt(TargetH), fov |-> FromInt(60)] >>

Transforms == <<Identity, Translation(One, Zero, One)>>

\* the draw calls the caller makes: <<model, camera, screen, transform>>
DrawCalls ==
    << <<1, 1, 1, 1>>, <<1, 2, 1, 2>>, <<1, 3, 2, 1>>, <<1, 3, 2, 2>>,
       <<2, 1, 1, 1>>, <<2, 2, 2, 1>>, <<3, 1, 1, 1>>, <<3, 3, 1, 2>> >>

Blit3DModelCall(d, ptr) ==
    Blit3DModel(Cameras[d[2]], Screens[d[3]], Models[d[1]], Transforms[d[4]], SurfaceOf(ptr))

\* ModelBlits[s + 1][j] is the Blit calls of DrawCalls[j] under sampler s
ModelBlits ==
    [k \in 1..(Len(Textures) + 1) |->
        [j \in 1..Len(DrawCalls) |-> CallsOf(Blit3DModelCall(DrawCalls[j], k - 1))]]

\* BlitTriangle and Blit3DModel are functions of their arguments alone: the
\* calls they make are computed once, in the initial state, and looked up
Memo == [tri |-> TriBlits, model |-> ModelBlits]

\* the single-pixel writes the caller makes with Target::Blit
Quarter == <<P23, -25>>

BlitInputs ==
    { [x |-> 1, y |-> 1, depth |-> Half, color |-> Red],
      [x |-> 1, y |-> 1, depth |-> Half, color |-> Green],
      [x |-> 1, y |-> 1, depth |-> Quarter, color |-> Blue],
      [x |-> 1, y |-> 1, depth |-> One, color |-> Red],
      [x |-> 1, y |-> 1, depth |-> NaN, color |-> Blue],
      [x |-> TargetW, y |-> 1, depth |-> Half, color |-> Blue],
      [x |-> 1, y |-> 0 - 1, depth |-> Half, color |-> Blue] }

SurfaceCleared(color) ==
    [op |-> "ClearSurface", x |-> 0, y |-> 0, depth |-> NaN, color |-> color]

NoInput == <<>>

Init ==
    /\ target = NewTarget(BlankSurface)
    /\ sampler = 0
    /\ calls = <<>>
    /\ last = [op |-> "new", arg |-> <<>>, before |-> NewTarget(BlankSurface)]
    /\ nops = 0
    /\ inp = NoInput
    /\ out = NoInput
    /\ memo = Memo

Step(op, arg) ==
    /\ nops < MaxOps
    /\ nops' = nops + 1
    /\ last' = [op |-> op, arg |-> arg, before |-> target]
    /\ UNCHANGED <<inp, out, memo>>

DoBlit(c) ==
    /\ Step("Blit", c)
    /\ target' = TargetBlit(target, c.x, c.y, c.depth, c.color)
    /\ calls' = Append(calls, CallOf(c))
    /\ UNCHANGED sampler

DoClearDepth ==
    /\ Step("ClearDepth", <<>>)
    /\ target' = ClearDepth(target)
    /\ calls' = <<>>
    /\ UNCHANGED sampler

DoClearSurface(color) ==
    /\ Step("ClearSurface", color)
    /\ target' = ClearSurface(target, color)
    /\ calls' = Append(calls, SurfaceCleared(color))
    /\ UNCHANGED sampler

\* variant: a null pointer leaves the bound sampler in place
DoSetSamplerNonNull(ptr) ==
    /\ Step("SetSampler", ptr)
    /\ sampler' = IF ptr = 0 THEN sampler ELSE ptr
    /\ UNCHANGED <<target, calls>>

\* Renderer3D::SetSampler
DoSetSampler(ptr) ==
    /\ Step("SetSampler", ptr)
    /\ sampler' = ptr
    /\ UNCHANGED <<target, calls>>

DoBlitTriangle(i) ==
    /\ Step("BlitTriangle", i)
    /\ target' = ApplyBlits(target, memo.tri[sampler + 1][i], 1)
    /\ calls' = calls \o CallsOf(memo.tri[sampler + 1][i])
    /\ UNCHANGED sampler

\* variant: the draw starts from a cleared depth buffer
DoBlit3DModelCleared(d) ==
    /\ Step("Blit3DModel", d)
    /\ target' = ApplyBlits(ClearDepth(target), memo.model[sampler + 1][d], 1)
    /\ calls' = CallsOf(memo.model[sampler + 1][d])
    /\ UNCHANGED sampler

DoBlit3DModel(d) ==
    /\ Step("Blit3DModel", d)
    /\ target' = ApplyBlits(target, memo.model[sampler + 1][d], 1)
    /\ calls' = calls \o CallsOf(memo.model[sampler + 1][d])
    /\ UNCHANGED sampler

Next ==
    \/ \E c \in BlitInputs : DoBlit(c)
    \/ DoClearDepth
    \/ DoClearSurface(Gray)
    \/ \E ptr \in 0..Len(Textures) : DoSetSampler(ptr)
    \/ \E i \in 1..Len(ScreenTris) : DoBlitTriangle(i)
    \/ \E d \in 1..Len(DrawCalls) : DoBlit3DModel(d)

Spec == Init /\ [][Next]_vars

(***************************************************************************)
(* Two draws in both orders: the same two BlitTriangle calls are made on   *)
(* two targets, on `target` in the order inp[1], inp[2] and on `out` in    *)
(* the order inp[2], inp[1].                                               *)
(***************************************************************************)
\* a triangle over the footprint (4, 0), (0, 0), (2, 4) at view depth z
Uniform(z, color) == <<SV(4, 0, z, color, UV0), SV(0, 0, z, color, UV0), SV(2, 4, z, color, UV0)>>

OrderTris ==
    << Uniform(1, Red), Uniform(2, Green), Uniform(5, Blue), Uniform(7, Orange),
       Uniform(9999, Gray), Uniform(10000, Red), Uniform(20000, Green) >>

OrderBlits == [k \in 1..Len(OrderTris) |-> BlitTriangle(TargetClip, OrderTris[k], NoSampler)]

InitOrder ==
    /\ target = NewTarget(BlankSurface)
    /\ out = NewTarget(BlankSurface)
    /\ sampler = 0
    /\ calls = <<>>
    /\ last = [op |-> "new", arg |-> <<>>, before |-> NewTarget(BlankSurface)]
    /\ nops = 0
    /\ inp \in {<<i, j>> : i, j \in 1..Len(OrderTris)} \ {<<i, i>> : i \in 1..Len(OrderTris)}
    /\ memo = OrderBlits

\* the k-th draw of each order
DrawPair(k) ==
    /\ nops = k - 1
    /\ nops' = k
    /\ target' = ApplyBlits(target, memo[inp[k]], 1)
    /\ out' = ApplyBlits(out, memo[inp[3 - k]], 1)
    /\ UNCHANGED <<sampler, calls, last, inp, memo>>

NextOrder == \E k \in 1..2 : DrawPair(k)

SpecOrder == InitOrder /\ [][NextOrder]_vars

(***************************************************************************)
(* One BlitTriangle call on a cleared target                               *)
(***************************************************************************)
\* bounds: the size of the target of this study
RasterW == 12
RasterH == 12

RasterSurface == [w |-> RasterW, h |-> RasterH, px |-> [i \in 1..(RasterW * RasterH) |-> Black]]

RasterClip == <<FromInt(RasterW), FromInt(RasterH)>>

Dim == <<7, 14, 28, 255>>

\* the triangle (0, 0), (10, 0), (5, 10)
T0 == <<SV(0, 0, 1, Orange, UV0), SV(10, 0, 1, Orange, UV0), SV(5, 10, 1, Orange, UV0)>>

Orders == {<<1, 2, 3>>, <<2, 1, 3>>, <<3, 2, 1>>, <<1, 3, 2>>, <<2, 3, 1>>, <<3, 1, 2>>}

Reordered(t, o) == <<t[o[1]], t[o[2]], t[o[3]]>>

\* a triangle over (4, 0), (0, 0), (2, 4) with one color and depths z
Colored(z, color) ==
    <<SV(4, 0, z[1], color, <<One, Zero>>), SV(0, 0, z[2], color, UV0),
      SV(2, 4, z[3], color, <<Zero, One>>)>>

RasterDepths == {1, 2, 7}

\* [tri, smp, color, order]: the triangle, the sampler bound, the color all
\* its vertices carry, and for T0 the order its vertices are given in
RasterInputs ==
    { [tri |-> Reordered(T0, o), smp |-> 0, color |-> Orange, order |-> o] : o \in Orders }
    \cup { [tri |-> Colored(z, c), smp |-> s, color |-> c, order |-> <<>>] :
              z \in RasterDepths \X RasterDepths \X RasterDepths,
              c \in {Orange, Dim}, s \in 0..Len(Textures) }

InitRaster ==
    /\ target = NewTarget(RasterSurface)
    /\ sampler \in 0..Len(Textures)
    /\ calls = <<>>
    /\ last = [op |-> "new", arg |-> <<>>, before |-> NewTarget(RasterSurface)]
    /\ nops = 0
    /\ inp \in {r \in RasterInputs : r.smp = sampler}
    /\ out = <<>>
    /\ memo = <<>>

\* Renderer3D::BlitTriangle(target, clip, vert1, vert2, vert3)
RasterDraw ==
    /\ nops = 0
    /\ nops' = 1
    /\ out' = BlitTriangle(RasterClip, inp.tri, SurfaceOf(sampler))
    /\ target' = ApplyBlits(target, out', 1)
    /\ calls' = CallsOf(out')
    /\ last' = [op |-> "BlitTriangle", arg |-> <<>>, before |-> target]
    /\ UNCHANGED <<sampler, inp, memo>>

NextRaster == RasterDraw

SpecRaster == InitRaster /\ [][NextRaster]_vars

(***************************************************************************)
(* One BlitClippedTriangle call on a cleared target.  The input is kept as *)
(* q: the x, y, z of its three view-space vertices in sixteenths.          *)
(***************************************************************************)
Sixteenths(n) == FDiv(FromInt(n), FromInt(16))

ViewTri(q) ==
    [k \in 1..3 |->
        MkVertex(Sixteenths(q[k][1]), Sixteenths(q[k][2]), Sixteenths(q[k][3]), Orange, UV0)]

\* the x, y of the vertices, in both orientations
Footprints ==
    { << <<-16, -16>>, <<16, -16>>, <<0, 16>> >>,
      << <<16, -16>>, <<-16, -16>>, <<0, 16>> >> }

\* depths behind the camera, between it and the clip plane, and beyond
ClipDepths == {-16, 1, 16, 48}

ClipInputs ==
    { [k \in 1..3 |-> <<f[k][1], f[k][2], z[k]>>] :
        f \in Footprints, z \in ClipDepths \X ClipDepths \X ClipDepths }

InitClip ==
    /\ target = NewTarget(BlankSurface)
    /\ sampler = 0
    /\ calls = <<>>
    /\ last = [op |-> "new", arg |-> <<>>, before |-> NewTarget(BlankSurface)]
    /\ nops = 0
    /\ inp \in ClipInputs
    /\ out = <<>>
    /\ memo = <<>>

\* Renderer3D::BlitClippedTriangle(target, screen, vert0, vert1, vert2);
\* out is the triangles it builds, last.arg those it hands to BlitTriangle
ClipDraw ==
    /\ nops = 0
    /\ nops' = 1
    /\ out' = ClipTriangles(ViewTri(inp))
    /\ last' = [op |-> "BlitClippedTriangle",
                arg |-> EmittedTriangles(Screens[1], ViewTri(inp)), before |-> target]
    /\ target' = ApplyBlits(target, BlitClippedTriangle(Screens[1], ViewTri(inp), NoSampler), 1)
    /\ UNCHANGED <<sampler, calls, inp, memo>>

NextClip == ClipDraw

SpecClip == InitClip /\ [][NextClip]_vars

(***************************************************************************)
(* One BlitTriangle call, or one BlitClippedTriangle call, on a cleared     *)
(* target, for triangles of every shape                                    *)
(***************************************************************************)
\* screen positions the vertices are taken from
SplitPoints ==
    {<<0, 0>>, <<3, 0>>, <<8, 0>>, <<4, 4>>, <<2, 6>>, <<0, 8>>, <<8, 8>>}

\* the view depths of the three vertices
SplitDepths == {<<1, 1, 1>>, <<1, 0, 2>>, <<0 - 1, 1, 1>>, <<0, 0 - 1, 0>>}

\* a sliver: its winding order is 1 from its first vertex and 0 from its
\* lowest, (1.2439, 0.4373)
Sliver ==
    << Vertex3D(<<<<9534976, -21>>, <<9609728, -21>>, One, One>>, ToVec4(Orange), UV0),
       Vertex3D(<<<<10434560, -23>>, <<14671872, -25>>, One, One>>, ToVec4(Orange), UV0),
       Vertex3D(<<<<15574073, -22>>, <<14832035, -22>>, One, One>>, ToVec4(Orange), UV0) >>

\* a needle: its winding order is 1, from its first vertex and sorted, and
\* the split vertex falls on its middle vertex, (9.3198, 2.3038)
Needle ==
    << Vertex3D(<<<<10530783, -20>>, <<10930910, -22>>, One, One>>, ToVec4(Orange), UV0),
       Vertex3D(<<<<16733806, -21>>, <<14623297, -23>>, One, One>>, ToVec4(Orange), UV0),
       Vertex3D(<<<<9772514, -20>>, <<9662645, -22>>, One, One>>, ToVec4(Orange), UV0) >>

\* [pts, z, tri]: the triangle tri, and for one on the integer positions
\* its vertices' x, y and z
SplitInputs ==
    { [pts |-> p, z |-> z,
       tri |-> [k \in 1..3 |-> SV(p[k][1], p[k][2], z[k], Orange, UV0)]] :
         p \in {q \in SplitPoints \X SplitPoints \X SplitPoints :
                   q[1] # q[2] /\ q[2] # q[3] /\ q[1] # q[3]},
         z \in SplitDepths }
    \cup { [pts |-> <<>>, z |-> <<1, 1, 1>>, tri |-> t] : t \in {Sliver, Needle} }

\* the pixel rows scanned by each call of a tree of BlitTriangle calls that
\* fills a flat triangle; none for the other calls
RowsOfCalls(clip, tree) ==
    [i \in 1..Len(tree) |->
        IF tree[i].branch = "fill" THEN FillRows(clip, tree[i].verts) ELSE <<>>]

InitSplit ==
    /\ target = NewTarget(RasterSurface)
    /\ sampler = 0
    /\ calls = <<>>
    /\ last = [op |-> "new", arg |-> <<>>, before |-> NewTarget(RasterSurface)]
    /\ nops = 0
    /\ inp \in SplitInputs
    /\ out = <<>>
    /\ memo = <<>>

\* Renderer3D::BlitTriangle(target, clip, triangle); last.arg is the
\* BlitTriangle calls made, the outer one first, and memo the pixel rows
\* each of them scanned
SplitDraw ==
    /\ nops = 0
    /\ nops' = 1
    /\ out' = BlitTriangle(RasterClip, inp.tri, NoSampler)
    /\ target' = ApplyBlits(target, out', 1)
    /\ calls' = CallsOf(out')
    /\ last' = [op |-> "BlitTriangle", arg |-> BlitTriangleCalls(inp.tri, 0), before |-> target]
    /\ memo' = RowsOfCalls(RasterClip, last'.arg)
    /\ UNCHANGED <<sampler, inp>>

SplitScreen == [width |-> FromInt(RasterW), height |-> FromInt(RasterH), fov |-> FromInt(90)]

\* Renderer3D::BlitClippedTriangle(target, screen, triangle), the triangle
\* taken as one in view space; last.arg is the BlitTriangle calls made
SplitClipped ==
    /\ nops = 0
    /\ nops' = 1
    /\ out' = BlitClippedTriangle(SplitScreen, inp.tri, NoSampler)
    /\ target' = ApplyBlits(target, out', 1)
    /\ calls' = CallsOf(out')
    /\ last' = [op |-> "BlitClippedTriangle",
                arg |-> BlitEachCalls(EmittedTriangles(SplitScreen, inp.tri), 0, 1),
                before |-> target]
    /\ memo' = RowsOfCalls(<<SplitScreen.width, SplitScreen.height>>, last'.arg)
    /\ UNCHANGED <<sampler, inp>>

NextSplit == SplitDraw \/ SplitClipped

SpecSplit == InitSplit /\ [][NextSplit]_vars

(***************************************************************************)
(* renderer.hpp: Camera3D.  A camera is a record of its position, pitch    *)
(* and yaw; SpecCamera applies sequences of Turn calls to it: inp is the   *)
(* camera as constructed, out the camera now, calls the arguments of the   *)
(* Turn calls made, last.before the camera before the last call.           *)
(***************************************************************************)
\* 89.9f
YawLimit == <<11783373, -17>>

\* 1.1f
Step11 == <<9227469, -23>>

\* variant: the yaw is not clamped
TurnUnclamped(camera, pitch_delta, yaw_delta) ==
    [camera EXCEPT !.pitch = FAdd(camera.pitch, pitch_delta),
                   !.yaw = FAdd(camera.yaw, yaw_delta)]

\* Camera3D::Turn
Turn(camera, pitch_delta, yaw_delta) ==
    [camera EXCEPT !.pitch = FAdd(camera.pitch, pitch_delta),
                   !.yaw = Clamp(FAdd(camera.yaw, yaw_delta), FNeg(YawLimit), YawLimit)]

\* cameras as the programs construct them (main.cpp, README), and one built
\* with a yaw outside the clamp range
TurnCameras ==
    { [pos |-> <<Zero, FNeg(Half), Zero>>, pitch |-> Zero, yaw |-> FromInt(45)],
      [pos |-> <<Zero, FMul(FromInt(3), Half), Zero>>, pitch |-> FromInt(45), yaw |-> FromInt(-20)],
      [pos |-> <<Zero, Zero, Zero>>, pitch |-> Zero, yaw |-> FromInt(120)] }

\* the arguments of a Turn call: <<pitch_delta, yaw_delta>>
TurnArgs ==
    { <<Step11, FromInt(60)>>, <<FNeg(Step11), FromInt(-60)>>,
      <<FromInt(50), Half>>, <<Half, FromInt(-200)>>,
      <<Half, NaN>>, <<Step11, PInf>> }

InitCamera ==
    /\ target = NewTarget(BlankSurface)
    /\ sampler = 0
    /\ calls = <<>>
    /\ inp \in TurnCameras
    /\ out = inp
    /\ last = [op |-> "new", arg |-> <<>>, before |-> inp]
    /\ nops = 0
    /\ memo = <<>>

DoTurn(a) ==
    /\ nops < MaxOps
    /\ nops' = nops + 1
    /\ out' = Turn(out, a[1], a[2])
    /\ calls' = Append(calls, a)
    /\ last' = [op |-> "Turn", arg |-> a, before |-> out]
    /\ UNCHANGED <<target, sampler, inp, memo>>

NextCamera == \E a \in TurnArgs : DoTurn(a)

SpecCamera == InitCamera /\ [][NextCamera]_vars

(***************************************************************************)
(* sdl_extra.hpp: SDL_Sample on its own.  SpecSample samples a texture at  *)
(* normalized coordinates in and around [0, 1]: inp is the call            *)
(* [surface, u, v], out is [color, read] with read the coordinates handed  *)
(* to SDL_ReadPixel, or <<>> when the sentinel color is returned.          *)
(***************************************************************************)
\* the coordinates SDL_Sample reads for the truncated coordinates (x, y)
SampleRead(surface, x, y) ==
    IF x >= 0 /\ x <= surface.w /\ y >= 0 /\ y <= surface.h
    THEN <<Min(x, surface.w - 1), Min(y, surface.h - 1)>>
    ELSE <<>>

\* the truncated coordinates: (int)Lerp(0, w, u), (int)Lerp(h, 0, v)
SampleXY(surface, u, v) ==
    <<Trunc(Lerp(Zero, FromInt(surface.w), u)), Trunc(Lerp(FromInt(surface.h), Zero, v))>>

\* quarters from -1 to 2
SampleCoords == {FDiv(FromInt(k), FromInt(4)) : k \in (0 - 4)..8}

InitSample ==
    /\ target = NewTarget(BlankSurface)
    /\ sampler = 0
    /\ calls = <<>>
    /\ last = [op |-> "new", arg |-> <<>>, before |-> NewTarget(BlankSurface)]
    /\ nops = 0
    /\ inp \in [surface : {Textures[i] : i \in DOMAIN Textures}, u : SampleCoords, v : SampleCoords]
    /\ out = <<>>
    /\ memo = <<>>

DoSample ==
    /\ nops = 0
    /\ nops' = 1
    /\ out' = [color |-> SDL_Sample(inp.surface, inp.u, inp.v),
               read  |-> LET xy == SampleXY(inp.surface, inp.u, inp.v)
                         IN  SampleRead(inp.surface, xy[1], xy[2])]
    /\ last' = [op |-> "SDL_Sample", arg |-> <<>>, before |-> target]
    /\ UNCHANGED <<target, sampler, calls, inp, memo>>

NextSample == DoSample

SpecSample == InitSample /\ [][NextSample]_vars

(***************************************************************************)
(* renderer.hpp: LoadModel, TryLoadModel.  A path either cannot be opened  *)
(* or names a text file, kept as [triangle_count, format, data]: the two   *)
(* counts and the format names of its header as read, and the numbers that *)
(* follow them.  A Model3D is the sequence of its triangles and an         *)
(* std::optional<Model3D> a sequence of no or one model.  In SpecLoad, out *)
(* is [model, loaded]: the caller's Model3D and the value the last         *)
(* LoadModel call returned; inp is the caller's model at the start.        *)
(***************************************************************************)
NoFile == <<>>

\* the files of the program's directory; every other path cannot be opened
FileAt(path) ==
    IF path = "assets/empty.txt"
    THEN [triangle_count |-> 0, format |-> <<>>, data |-> <<>>]
    ELSE IF path = "assets/tri.txt"
    THEN [triangle_count |-> 1, format |-> <<"pos">>,
          data |-> <<-1, -1, 2,  1, -1, 2,  0, 1, 2>>]
    ELSE IF path = "assets/quad.txt"
    THEN [triangle_count |-> 2, format |-> <<"pos", "uv">>,
          data |-> <<0, 0, 3, 0, 0,  1, 0, 3, 1, 0,  1, 1, 3, 1, 1,
                     0, 0, 3, 0, 0,  1, 1, 3, 1, 1,  0, 1, 3, 0, 1>>]
    ELSE IF path = "assets/colored.txt"
    THEN [triangle_count |-> 1, format |-> <<"color", "pos", "uv">>,
          data |-> <<255, 128, 0, 255, -2, -1, 1, 0, 0,  255, 128, 0, 255, 1, -1, 1, 1, 0,
                     255, 128, 0, 255, 0, 2, 1, 0, 1>>]
    ELSE NoFile

Paths == {"assets/empty.txt", "assets/tri.txt", "assets/quad.txt", "assets/colored.txt",
          "assets/missing.txt", ""}

\* Vertex3D(): the vertex a Triangle3D starts with
DefaultVertex == Vertex3D(<<Zero, Zero, Zero, One>>, ToVec4(<<255, 255, 255, 255>>), UV0)

\* file >> x for the n floats of a field, from the number after index at
Extract(file, at, n) == [i \in 1..n |-> FromInt(file.data[at + i])]

\* the vertex after the fields of the format from f on were read into it,
\* and the index of the last number read: <<vertex, at>>
RECURSIVE ReadFields(_, _, _, _)
ReadFields(file, vertex, at, f) ==
    IF f > Len(file.format) THEN <<vertex, at>>
    ELSE IF file.format[f] = "pos"
    THEN ReadFields(file, [vertex EXCEPT !.pos = Extract(file, at, 3) \o <<vertex.pos[4]>>],
                    at + 3, f + 1)
    ELSE IF file.format[f] = "color"
    THEN ReadFields(file, [vertex EXCEPT !.color = Extract(file, at, 4)], at + 4, f + 1)
    ELSE IF file.format[f] = "uv"
    THEN ReadFields(file, [vertex EXCEPT !.uv = Extract(file, at, 2)], at + 2, f + 1)
    ELSE ReadFields(file, vertex, at, f + 1)

\* the vertices v.. of a triangle: <<vertices, at>>
RECURSIVE ReadVertices(_, _, _)
ReadVertices(file, at, v) ==
    IF v > 3 THEN <<<<>>, at>>
    ELSE LET one  == ReadFields(file, DefaultVertex, at, 1)
             rest == ReadVertices(file, one[2], v + 1)
         IN  <<<<one[1]>> \o rest[1], rest[2]>>

\* the triangles t.. pushed back onto model.triangles
RECURSIVE ReadTriangles(_, _, _)
ReadTriangles(file, at, t) ==
    IF t > file.triangle_count THEN <<>>
    ELSE LET triangle == ReadVertices(file, at, 1)
         IN  <<triangle[1]>> \o ReadTriangles(file, triangle[2], t + 1)

LoadModel(filepath) ==
    IF FileAt(filepath) # NoFile
    THEN <<ReadTriangles(FileAt(filepath), 0, 1)>>
    ELSE <<>>

\* variant: a failed load leaves the caller an empty model
TryLoadModelCleared(filepath, out_model) ==
    IF LoadModel(filepath) # <<>> THEN LoadModel(filepath)[1] ELSE <<>>

\* the caller's model after TryLoadModel(filepath, out_model)
TryLoadModel(filepath, out_model) ==
    IF LoadModel(filepath) # <<>> THEN LoadModel(filepath)[1] ELSE out_model

InitLoad ==
    /\ target = NewTarget(BlankSurface)
    /\ sampler = 0
    /\ calls = <<>>
    /\ inp \in {Models[i] : i \in DOMAIN Models}
    /\ out = [model |-> inp, loaded |-> <<>>]
    /\ last = [op |-> "new", arg |-> <<>>, before |-> [model |-> inp, loaded |-> <<>>]]
    /\ nops = 0
    /\ memo = <<>>

StepLoad(op, filepath) ==
    /\ nops < MaxOps
    /\ nops' = nops + 1
    /\ last' = [op |-> op, arg |-> filepath, before |-> out]
    /\ UNCHANGED <<target, sampler, calls, inp, memo>>

\* auto loaded = LoadModel(filepath);
DoLoadModel(filepath) ==
    /\ StepLoad("LoadModel", filepath)
    /\ out' = [out EXCEPT !.loaded = LoadModel(filepath)]

\* TryLoadModel(filepath, model);
DoTryLoadModel(filepath) ==
    /\ StepLoad("TryLoadModel", filepath)
    /\ out' = [out EXCEPT !.model = TryLoadModel(filepath, out.model)]

NextLoad ==
    \E filepath \in Paths : DoLoadModel(filepath) \/ DoTryLoadModel(filepath)

SpecLoad == InitLoad /\ [][NextLoad]_vars

(***************************************************************************)
(* One BlitClippedTriangle call on a cleared target, with vertex depths in *)
(* tenths, so that a vertex can lie exactly on the clip plane.  The input  *)
(* is the depths z of the three vertices in tenths; last.arg is the call's  *)
(* classification of them and out is [cuts, tree]: the edge parameters it  *)
(* computed and the BlitTriangle calls made, in call order.                *)
(***************************************************************************)
Tenths(n) == FDiv(FromInt(n), FromInt(10))

\* depths far behind the camera (-2^21), behind it, at it, on the clip
\* plane, and beyond it
PlaneDepths == {0 - 20971520, 0 - 10, 0, 1, 2, 10, 30}

PlaneTri(z) ==
    [k \in 1..3 |->
        MkVertex(FromInt(<<-1, 1, 0>>[k]), FromInt(<<-1, -1, 1>>[k]), Tenths(z[k]), Orange, UV0)]

\* the InvLerp(clip_plane, a.z, b.z) calls of the branch taken, in the
\* order the vertices they give are first used: the divisor and the result
ClipParams(verts, c) ==
    LET plan  == ClipPlan(c)
        names == [i \in 1..(3 * Len(plan)) |-> plan[((i - 1) \div 3) + 1][((i - 1) % 3) + 1]]
        cuts  == SelectSeq(names, LAMBDA n : n[3] = "to")
    IN  [i \in 1..Len(cuts) |->
            [a   |-> cuts[i][1],
             b   |-> cuts[i][2],
             den |-> FSub(verts[cuts[i][2]].pos[3], verts[cuts[i][1]].pos[3]),
             t   |-> InvLerp(clip_plane, verts[cuts[i][1]].pos[3], verts[cuts[i][2]].pos[3])]]

InitPlane ==
    /\ target = NewTarget(BlankSurface)
    /\ sampler = 0
    /\ calls = <<>>
    /\ last = [op |-> "new", arg |-> <<>>, before |-> NewTarget(BlankSurface)]
    /\ nops = 0
    /\ inp \in PlaneDepths \X PlaneDepths \X PlaneDepths
    /\ out = <<>>
    /\ memo = <<>>

\* Renderer3D::BlitClippedTriangle(target, screen, triangle)
PlaneDraw ==
    /\ nops = 0
    /\ nops' = 1
    /\ last' = [op |-> "BlitClippedTriangle",
                arg |-> [k \in 1..3 |-> IsClipped(PlaneTri(inp)[k])], before |-> target]
    /\ out' = [cuts |-> ClipParams(PlaneTri(inp), last'.arg),
               tree |-> BlitEachCalls(EmittedTriangles(Screens[1], PlaneTri(inp)), 0, 1)]
    /\ target' = ApplyBlits(target, BlitClippedTriangle(Screens[1], PlaneTri(inp), NoSampler), 1)
    /\ UNCHANGED <<sampler, calls, inp, memo>>

NextPlane == PlaneDraw

SpecPlane == InitPlane /\ [][NextPlane]_vars

(***************************************************************************)
(* Triangle3D::GetWindingOrder on the three vertices in each of their six  *)
(* orders.                                                                 *)
(***************************************************************************)
\* three points of the line y = 3x, one of them far from the other two
LongPoints == <<<<0 - 1, 0 - 3>>, <<16777216, 50331648>>, <<1, 3>>>>

\* [pts, tri]: the triangle tri, and its integer positions when it has them
WindingInputs ==
    { [pts |-> p, tri |-> [k \in 1..3 |-> SV(p[k][1], p[k][2], 1, Orange, UV0)]] :
         p \in (SplitPoints \X SplitPoints \X SplitPoints) \cup {LongPoints} }
    \cup { [pts |-> <<>>, tri |-> t] : t \in {Sliver, Needle} }

InitWinding ==
    /\ target = NewTarget(BlankSurface)
    /\ sampler = 0
    /\ calls = <<>>
    /\ last = [op |-> "new", arg |-> <<>>, before |-> NewTarget(BlankSurface)]
    /\ nops = 0
    /\ inp \in WindingInputs
    /\ out = <<>>
    /\ memo = <<>>

\* triangle.GetWindingOrder() for the vertices in each order o; out[o]
DoWinding ==
    /\ nops = 0
    /\ nops' = 1
    /\ out' = [o \in Orders |-> GetWindingOrder(Reordered(inp.tri, o))]
    /\ last' = [op |-> "GetWindingOrder", arg |-> <<>>, before |-> target]
    /\ UNCHANGED <<target, sampler, calls, inp, memo>>

NextWinding == DoWinding

SpecWinding == InitWinding /\ [][NextWinding]_vars

(***************************************************************************)
(* The same Blit3DModel call made twice, with SetSampler in between and no *)
(* ClearDepth.  inp is [d, first, second]: the draw call and the samplers  *)
(* bound for the first and the second draw; out is the target after the    *)
(* first draw.                                                             *)
(***************************************************************************)
\* a target an earlier BlitTriangle has drawn on
DrawnTarget == ApplyBlits(NewTarget(BlankSurface), TriBlits[1][1], 1)

InitTwice ==
    /\ memo = Memo
    /\ target \in {NewTarget(BlankSurface), DrawnTarget}
    /\ inp \in [d : 1..Len(DrawCalls), first : 0..Len(Textures), second : 0..Len(Textures)]
    /\ sampler = inp.first
    /\ calls = <<>>
    /\ last = [op |-> "new", arg |-> <<>>, before |-> target]
    /\ nops = 0
    /\ out = <<>>

\* renderer.Blit3DModel(target, camera, screen, model, transform), the
\* first time
FirstDraw ==
    /\ nops = 0
    /\ nops' = 1
    /\ target' = ApplyBlits(target, memo.model[sampler + 1][inp.d], 1)
    /\ out' = target'
    /\ calls' = calls \o CallsOf(memo.model[sampler + 1][inp.d])
    /\ last' = [op |-> "Blit3DModel", arg |-> inp.d, before |-> target]
    /\ UNCHANGED <<sampler, inp, memo>>

\* renderer.SetSampler(second)
Rebind ==
    /\ nops = 1
    /\ nops' = 2
    /\ sampler' = inp.second
    /\ last' = [op |-> "SetSampler", arg |-> inp.second, before |-> target]
    /\ UNCHANGED <<target, calls, inp, out, memo>>

\* the same Blit3DModel call again
SecondDraw ==
    /\ nops = 2
    /\ nops' = 3
    /\ target' = ApplyBlits(target, memo.model[sampler + 1][inp.d], 1)
    /\ calls' = calls \o CallsOf(memo.model[sampler + 1][inp.d])
    /\ last' = [op |-> "Blit3DModel", arg |-> inp.d, before |-> target]
    /\ UNCHANGED <<sampler, inp, out, memo>>

NextTwice == FirstDraw \/ Rebind \/ SecondDraw

SpecTwice == InitTwice /\ [][NextTwice]_vars

(***************************************************************************)
(* One BlitTriangle call on a cleared target, for triangles near and       *)
(* beyond the far end of the depth range.  The input is the view depths of *)
(* the three vertices; out is the Target::Blit calls made.                  *)
(***************************************************************************)
FarDepths == {5000, 9999, 10000, 10001, 20000}

\* the triangle (10, 0), (0, 0), (5, 10) with the view depths z
FarTri(z) == [k \in 1..3 |-> SV(<<10, 0, 5>>[k], <<0, 0, 10>>[k], z[k], Orange, UV0)]

InitFar ==
    /\ target = NewTarget(RasterSurface)
    /\ sampler = 0
    /\ calls = <<>>
    /\ last = [op |-> "new", arg |-> <<>>, before |-> NewTarget(RasterSurface)]
    /\ nops = 0
    /\ inp \in FarDepths \X FarDepths \X FarDepths
    /\ out = <<>>
    /\ memo = <<>>

\* Renderer3D::BlitTriangle(target, clip, vert1, vert2, vert3)
FarDraw ==
    /\ nops = 0
    /\ nops' = 1
    /\ out' = BlitTriangle(RasterClip, FarTri(inp), NoSampler)
    /\ target' = ApplyBlits(target, out', 1)
    /\ calls' = CallsOf(out')
    /\ last' = [op |-> "BlitTriangle", arg |-> <<>>, before |-> target]
    /\ UNCHANGED <<sampler, inp, memo>>

NextFar == FarDraw

SpecFar == InitFar /\ [][NextFar]_vars

(***************************************************************************)
(* One BlitTriangle call on a cleared target, with the clip rectangle the  *)
(* size of the surface, for triangles reaching outside the viewport.  The  *)
(* input is the x, y of the three vertices in halves; out is the           *)
(* Target::Blit calls made.                                                *)
(***************************************************************************)
Halves(n) == FDiv(FromInt(n), FromInt(2))

\* integer positions left of, above, right of, inside and below the viewport
EdgePoints ==
    {<<0 - 6, 0 - 4>>, <<10, 0 - 8>>, <<30, 6>>, <<12, 12>>, <<0 - 4, 18>>, <<28, 28>>, <<8, 30>>}

\* (6, 11.5), (2, 13.5), (10, 13.5): a flat triangle across the lower border
LowPoints == <<<<12, 23>>, <<4, 27>>, <<20, 27>>>>

EdgeInputs ==
    {q \in EdgePoints \X EdgePoints \X EdgePoints : q[1] # q[2] /\ q[2] # q[3] /\ q[1] # q[3]}
    \cup {Reordered(LowPoints, o) : o \in Orders}

EdgeTri(q) == [k \in 1..3 |-> MkVertex(Halves(q[k][1]), Halves(q[k][2]), One, Orange, UV0)]

InitEdge ==
    /\ target = NewTarget(RasterSurface)
    /\ sampler = 0
    /\ calls = <<>>
    /\ last = [op |-> "new", arg |-> <<>>, before |-> NewTarget(RasterSurface)]
    /\ nops = 0
    /\ inp \in EdgeInputs
    /\ out = <<>>
    /\ memo = <<>>

\* Renderer3D::BlitTriangle(target, clip, triangle), clip = (surface->w, surface->h)
EdgeDraw ==
    /\ nops = 0
    /\ nops' = 1
    /\ out' = BlitTriangle(RasterClip, EdgeTri(inp), NoSampler)
    /\ target' = ApplyBlits(target, out', 1)
    /\ calls' = CallsOf(out')
    /\ last' = [op |-> "BlitTriangle", arg |-> BlitTriangleCalls(EdgeTri(inp), 0), before |-> target]
    /\ UNCHANGED <<sampler, inp, memo>>

NextEdge == EdgeDraw

SpecEdge == InitEdge /\ [][NextEdge]_vars

(***************************************************************************)
(* Target: the depth test                                                  *)
(***************************************************************************)
InBounds(x, y) == x >= 0 /\ x < target.surface.w /\ y >= 0 /\ y < target.surface.h

PixelIndex(x, y) == y * target.surface.w + x + 1

\* the call c passes the test against the target b: in bounds, and its
\* depth strictly less than the stored one
Passes(c, b) == InBounds(c.x, c.y) /\ FLt(c.depth, b.depth_buffer[PixelIndex(c.x, c.y)])

\* C1: Target::Blit writes the pixel's color and depth if and only if the
\* coordinate is in bounds and the new depth is strictly less than the
\* stored depth; every other pixel and depth, and in every other case the
\* whole target, is left as it was.
C1_BlitWritesIffNearer ==
    last.op = "Blit" =>
        /\ target.surface.w = last.before.surface.w
        /\ target.surface.h = last.before.surface.h
        /\ \A i \in 1..(TargetW * TargetH) :
              IF Passes(last.arg, last.before) /\ i = PixelIndex(last.arg.x, last.arg.y)
              THEN /\ target.surface.px[i] = last.arg.color
                   /\ target.depth_buffer[i] = last.arg.depth
              ELSE /\ target.surface.px[i] = last.before.surface.px[i]
                   /\ target.depth_buffer[i] = last.before.depth_buffer[i]

\* a Blit that passed the test over a pixel that an earlier call had written
C1_Witness ==
    /\ last.op = "Blit"
    /\ Passes(last.arg, last.before)
    /\ last.before.depth_buffer[PixelIndex(last.arg.x, last.arg.y)] = Half
    /\ target.depth_buffer[PixelIndex(last.arg.x, last.arg.y)] = Quarter
    /\ target.surface.px[PixelIndex(last.arg.x, last.arg.y)] = Blue

(***************************************************************************)
(* Depth-buffered drawing: what a pixel shows after a run of draws         *)
(***************************************************************************)
\* only draws were made since the last ClearDepth
OnlyDraws == \A i \in 1..Len(calls) : calls[i].op = "Blit"

\* the Blit calls of the history that covered pixel (x, y) with a depth
Covering(x, y) ==
    {i \in 1..Len(calls) : calls[i].x = x /\ calls[i].y = y /\ calls[i].depth # NaN}

\* those of them whose depth is below the value the depth buffer is
\* cleared to
Visible(x, y) == {i \in Covering(x, y) : FLt(calls[i].depth, One)}

\* the first call of Q with the smallest depth
Nearest(Q) ==
    CHOOSE i \in Q :
        /\ \A j \in Q : ~FLt(calls[j].depth, calls[i].depth)
        /\ \A j \in Q : j < i => FLt(calls[i].depth, calls[j].depth)

\* every pixel covered by a call of Q(x, y) shows the color of the nearest
ShowsNearest(Q(_, _)) ==
    \A x \in 0..(TargetW - 1), y \in 0..(TargetH - 1) :
        Q(x, y) # {} =>
            target.surface.px[PixelIndex(x, y)] = calls[Nearest(Q(x, y))].color

\* C2 as stated: after any sequence of draws since the last ClearDepth,
\* every pixel shows the color of the smallest-depth triangle among all
\* that covered it, the first submitted winning ties.
C2_SmallestDepthShown == OnlyDraws => ShowsNearest(Covering)

\* C2 amended: after any sequence of draws since the last ClearDepth, every
\* pixel covered with a depth below 1.0 (the cleared value: view z below
\* 10000) shows the color of the smallest-depth triangle among those that
\* covered it with such a depth, the first submitted winning ties.
C2_SmallestVisibleDepthShown == OnlyDraws => ShowsNearest(Visible)

\* a pixel drawn three times: farther first, then nearer, then at the
\* nearer depth again with another color
C2_Witness ==
    /\ OnlyDraws
    /\ \E x \in 0..(TargetW - 1), y \in 0..(TargetH - 1) :
          \E i, j, k \in Visible(x, y) :
             /\ i < j /\ j < k
             /\ FLt(calls[j].depth, calls[i].depth)
             /\ calls[k].depth = calls[j].depth
             /\ calls[k].color # calls[j].color
             /\ target.surface.px[PixelIndex(x, y)] = calls[j].color

(***************************************************************************)
(* Blit3DModel of a model without triangles                                *)
(***************************************************************************)
EmptyModelDrawn == last.op = "Blit3DModel" /\ Models[DrawCalls[last.arg][1]] = <<>>

\* C4: Blit3DModel of a model with zero triangles leaves the target, its
\* color pixels and its depth buffer, unchanged, for any camera, screen and
\* transform.
C4_EmptyModelNoChange == EmptyModelDrawn => target = last.before

\* an empty model drawn, with a moved camera, over a target that earlier
\* draws have written
C4_Witness ==
    /\ EmptyModelDrawn
    /\ DrawCalls[last.arg][2] # 1
    /\ DrawCalls[last.arg][4] # 1
    /\ \E i \in 1..(TargetW * TargetH) : target.depth_buffer[i] # One

(***************************************************************************)
(* Order of submission                                                     *)
(***************************************************************************)
\* the view depth of the uniform triangle k
ViewDepth(k) == OrderTris[k][1].pos[3]

\* of the two triangles drawn, the one nearer to the camera
Nearer == IF FLt(ViewDepth(inp[1]), ViewDepth(inp[2])) THEN inp[1] ELSE inp[2]

Farther == IF Nearer = inp[1] THEN inp[2] ELSE inp[1]

\* every pixel triangle k covers shows what k draws there
ShowsTriangle(k) ==
    \A i \in 1..Len(memo[k]) :
        InBounds(memo[k][i].x, memo[k][i].y) /\ memo[k][i].depth # NaN =>
            target.surface.px[PixelIndex(memo[k][i].x, memo[k][i].y)] = memo[k][i].color

\* the depth values triangle k draws with
DepthsOf(k) == {memo[k][i].depth : i \in 1..Len(memo[k])} \ {NaN}

\* the depth values of the nearer triangle are below those of the farther
\* and below the value the depth buffer is cleared to
NearerVisible ==
    \A d \in DepthsOf(Nearer) :
        FLt(d, One) /\ \A e \in DepthsOf(Farther) : FLt(d, e)

\* C3 as stated: two opaque triangles with the same footprint and different
\* view depths, drawn onto a cleared target, give the same final pixels in
\* either order, and the overlapping pixels show the nearer triangle.
C3_OrderIndependent ==
    nops = 2 => target.surface = out.surface /\ ShowsTriangle(Nearer)

\* C3 amended: the same, for two triangles whose depth values (view z /
\* 10000) differ and of which the nearer's is below 1.0, the value the depth
\* buffer is cleared to.
C3_OrderIndependentVisible ==
    nops = 2 /\ NearerVisible => target = out /\ ShowsTriangle(Nearer)

\* the triangles at z = 5 and z = 2 drawn, the farther first in one order:
\* the nearer one's color is on the pixels in both
C3_Witness ==
    /\ nops = 2
    /\ NearerVisible
    /\ ViewDepth(inp[1]) = FromInt(5)
    /\ ViewDepth(inp[2]) = FromInt(2)
    /\ DepthsOf(Nearer) # {}
    /\ \E i \in 1..Len(target.surface.px) :
          target.surface.px[i] = Green /\ out.surface.px[i] = Green

(***************************************************************************)
(* Culling by winding order                                                *)
(***************************************************************************)
Blank == \A i \in 1..Len(target.surface.px) : target.surface.px[i] = Black

\* C5 as stated: the triangle (0, 0), (10, 0), (5, 10), given in that
\* order, writes at least one pixel; with any two of its vertices swapped it
\* writes none.
C5_WindingCull ==
    nops = 1 /\ inp.order # <<>> =>
        /\ inp.order = <<1, 2, 3>> => ~Blank
        /\ inp.order \in {<<2, 1, 3>>, <<3, 2, 1>>, <<1, 3, 2>>} => Blank

(***************************************************************************)
(* Colors written                                                          *)
(***************************************************************************)
\* the pixels the draw wrote
Written == {i \in 1..Len(target.surface.px) : target.depth_buffer[i] # One}

\* C9 as stated: with no sampler bound, a drawn triangle whose vertices all
\* carry one color writes exactly that color to every pixel it fills,
\* whatever the vertices' depths.
C9_UniformColorExact ==
    nops = 1 /\ sampler = 0 =>
        \A i \in Written : target.surface.px[i] = inp.color

\* a * b / 255 rounded to the nearest integer
NearestProduct(a, b) == (2 * a * b + 255) \div 510

\* the texel the sampler bound gives for the Blit call f
TexelOf(f) == SDL_Sample(SurfaceOf(sampler), f.uv[1], f.uv[2])

\* C10 as stated: with a sampler bound, each channel of the color written is
\* (interpolated vertex channel * sampled texel channel) / 255 rounded to
\* the nearest integer; the color (200, 100, 50, 255) under a 1 x 1 sampler
\* of (128, 128, 128, 255) is written as (100, 50, 25, 255).
C10_BlendRounded ==
    nops = 1 /\ sampler # 0 =>
        \A k \in 1..Len(out) :
            InBounds(out[k].x, out[k].y) /\ FLt(out[k].depth, One) =>
                /\ \A ch \in 1..4 :
                      out[k].color[ch] = NearestProduct(inp.color[ch], TexelOf(out[k])[ch])
                /\ inp.color = Orange /\ sampler = 1 => out[k].color = <<100, 50, 25, 255>>

(***************************************************************************)
(* The near-plane clipper                                                  *)
(***************************************************************************)
\* the input vertices in front of the clip plane: 0.1 is 1.6 sixteenths
Clipped == {k \in 1..3 : 10 * inp[k][3] < 16}

Emitted == last.arg

\* C6: the clipper hands the rasterizer exactly 1 triangle when no vertex
\* is clipped, 3 when one is, 1 when two are, and none, drawing nothing,
\* when all three are.
C6_EmittedCount ==
    nops = 1 =>
        /\ Len(Emitted) = <<1, 3, 1, 0>>[Cardinality(Clipped) + 1]
        /\ Len(out) = Len(Emitted)
        /\ Cardinality(Clipped) = 3 => target = last.before

\* a triangle with one vertex clipped: three pieces, and pixels written
C6_Witness ==
    /\ nops = 1
    /\ Cardinality(Clipped) = 1
    /\ Len(Emitted) = 3
    /\ target # last.before

\* the depths of the vertices of the emitted triangles
EmittedDepths == {Emitted[i][j].pos[3] : i \in 1..Len(Emitted), j \in 1..3}

\* C7 as stated: every vertex of every emitted triangle has view z >= 0.1,
\* the intersection vertices lying exactly on the plane.
C7_BehindPlane == nops = 1 => \A z \in EmittedDepths : FLe(clip_plane, z)

\* the largest distance of an input vertex from the camera plane
Reach == Sixteenths(CHOOSE m \in {Abs(inp[k][3]) : k \in 1..3} :
                       \A k \in 1..3 : Abs(inp[k][3]) <= m)

\* 2^-22 * (0.1 + Reach): the float rounding of an intersection
Slack == FMul(<<P23, -45>>, FAdd(clip_plane, Reach))

\* how vertex j of emitted triangle i was made: "v", "to" or "mid"
KindOf(i, j) == ClipPlan([k \in 1..3 |-> k \in Clipped])[i][j][3]

\* C7 amended: every vertex of every emitted triangle has view z >= 0.1 - e,
\* where e = 2^-22 * (0.1 + the largest |z| of the input's vertices)
\* is the float rounding of the interpolation: an intersection vertex is on
\* the plane up to that rounding, a kept or midpoint vertex has z >= 0.1.
C7_BehindPlaneRounded ==
    nops = 1 =>
        \A i \in 1..Len(Emitted), j \in 1..3 :
            IF KindOf(i, j) = "to"
            THEN /\ FLe(FSub(clip_plane, Slack), Emitted[i][j].pos[3])
                 /\ FLe(Emitted[i][j].pos[3], FAdd(clip_plane, Slack))
            ELSE FLe(clip_plane, Emitted[i][j].pos[3])

\* an intersection vertex that float rounding left below the plane
C7_Witness ==
    /\ nops = 1
    /\ \E i \in 1..Len(Emitted), j \in 1..3 :
          /\ KindOf(i, j) = "to"
          /\ FLt(Emitted[i][j].pos[3], clip_plane)
          /\ FLe(FSub(clip_plane, Slack), Emitted[i][j].pos[3])

\* the determinant of the rows a, b, c
Det(a, b, c) ==
    a[1] * (b[2] * c[3] - b[3] * c[2]) - a[2] * (b[1] * c[3] - b[3] * c[1])
    + a[3] * (b[1] * c[2] - b[2] * c[1])

\* the orientation of the input as seen from the camera, in the terms of
\* GetWindingOrder: 1, -1, or 0 for a triangle seen edge-on
Facing == Sgn(Det(inp[1], inp[2], inp[3]))

Filled == {k \in 1..Len(out) : InBounds(out[k].x, out[k].y) /\ FLt(out[k].depth, One)}

\* twice the x, y of vertex i of the triangle drawn
Corner2(i) == <<2 * Trunc(inp.tri[i].pos[1]), 2 * Trunc(inp.tri[i].pos[2])>>

\* the cross product (q - p) x (r - p)
Cross2(p, q, r) == (q[1] - p[1]) * (r[2] - p[2]) - (q[2] - p[2]) * (r[1] - p[1])

\* the barycentric weights, up to their common factor, of the point with
\* doubled coordinates p in the screen-space triangle
Bary(p) ==
    << Cross2(p, Corner2(2), Corner2(3)), Cross2(p, Corner2(3), Corner2(1)),
       Cross2(p, Corner2(1), Corner2(2)) >>

\* the view z of vertex i, and the product of the other two
ZOf(i) == Trunc(inp.tri[i].pos[3])
ZOthers(i) == (ZOf(1) * ZOf(2) * ZOf(3)) \div ZOf(i)

\* sum of bary_i * a_i / z_i, times z_1 * z_2 * z_3
OverZ(b, a) == b[1] * a[1] * ZOthers(1) + b[2] * a[2] * ZOthers(2) + b[3] * a[3] * ZOthers(3)

\* the float x as a multiple of 1/4096, truncated
Fixed12(x) == Trunc(FMul(x, FromInt(4096)))

\* x is the fraction num / den, to within 2^-8
IsFraction(x, num, den) ==
    /\ IsFinite(x)
    /\ Abs(Fixed12(x) * den - 4096 * num) <= 17 * Abs(den)

\* the texture coordinate of the call f is the perspective-correct value at
\* the point with doubled coordinates p
IsTrueUV(f, p) ==
    \A c \in 1..2 :
        IsFraction(f.uv[c],
                   OverZ(Bary(p), [i \in 1..3 |-> Trunc(inp.tri[i].uv[c])]),
                   OverZ(Bary(p), <<1, 1, 1>>))

DistinctDepths == ZOf(1) # ZOf(2) /\ ZOf(2) # ZOf(3) /\ ZOf(1) # ZOf(3)

\* C11 as stated: for a drawn triangle with distinct texture coordinates and
\* distinct view z, the texture coordinate computed for each filled pixel is
\* (sum of bary_i * uv_i / z_i) / (sum of bary_i / z_i) for the true
\* barycentric weights of that pixel in the screen-space triangle, taken at
\* the pixel's corner, at its center or at the middle of its left or top
\* side, to within 2^-8.
C11_PerspectiveCorrectUV ==
    nops = 1 /\ inp.order = <<>> /\ DistinctDepths =>
        \A k \in Filled :
            \E s, t \in 0..1 : IsTrueUV(out[k], <<2 * out[k].x + s, 2 * out[k].y + t>>)

(***************************************************************************)
(* Divisions of the scan loop                                              *)
(***************************************************************************)
\* C12 as stated: for a triangle with three finite vertices and positive z,
\* BlitTriangle never divides by zero: for every pixel the scan loop visits,
\* x2 # x1 when the column progress (x - x1) / (x2 - x1) is computed and
\* height # 0 when the row progress y / height is computed.
C12_NoDivisionByZero ==
    nops = 1 => \A k \in 1..Len(out) : out[k].den[1] # Zero /\ out[k].den[2] # Zero

(***************************************************************************)
(* Depth of the recursion of BlitTriangle                                  *)
(***************************************************************************)
Tree == last.arg

\* the calls made directly by call i of the tree
Children(i) ==
    {j \in (i + 1)..Len(Tree) :
        /\ Tree[j].level = Tree[i].level + 1
        /\ \A k \in (i + 1)..j : Tree[k].level > Tree[i].level}

\* two of the vertices share a y
SharesY(verts) ==
    \E a, b \in 1..3 : a < b /\ FEq(verts[a].pos[2], verts[b].pos[2])

\* the recursion is at most two levels deep, and a call that rotates its
\* vertices makes one call, which does not recurse again
TwoLevels ==
    /\ \A i \in 1..Len(Tree) : Tree[i].level <= 2
    /\ \A i \in 1..Len(Tree) :
          Tree[i].branch \in {"rotate1", "rotate2"} =>
              /\ Cardinality(Children(i)) = 1
              /\ \A j \in Children(i) : Tree[j].branch \in {"fill", "reject"}
    /\ \A i \in 1..Len(Tree) :
          Tree[i].branch \in {"fill", "reject"} => Children(i) = {}
    /\ \A i \in 1..Len(Tree) :
          Tree[i].branch = "general" =>
              \A j \in Children(i) : SharesY(Tree[j].verts) /\ Tree[j].branch # "general"

Calls(op) == nops' = nops + 1 /\ last'.op = op

\* between the targets a and b, pixels and depths changed only by
\* depth-tested writes: no depth was raised, and a pixel whose color
\* changed had its depth lowered
OnlyWritten(a, b) ==
    /\ b.surface.w = a.surface.w /\ b.surface.h = a.surface.h
    /\ \A i \in 1..(TargetW * TargetH) :
          /\ ~FLt(a.depth_buffer[i], b.depth_buffer[i])
          /\ b.surface.px[i] # a.surface.px[i] =>
                FLt(b.depth_buffer[i], a.depth_buffer[i])

\* C14: Blit3DModel changes nothing but the target's pixels and depth
\* entries: the bound sampler is the same after the call as before (the
\* model, camera and screen are taken by reference to const), and the call
\* never resets the depth buffer or the surface.
C14_ModelDrawFrame ==
    [][Calls("Blit3DModel") => sampler' = sampler /\ OnlyWritten(target, target')]_vars

\* a model drawn with a sampler bound over a target that earlier draws had
\* written: some pixels are written, others keep their earlier depth
C14_Witness ==
    /\ last.op = "Blit3DModel"
    /\ sampler # 0
    /\ \E i \in 1..(TargetW * TargetH) :
          FLt(target.depth_buffer[i], last.before.depth_buffer[i])
    /\ \E i \in 1..(TargetW * TargetH) :
          /\ target.depth_buffer[i] = last.before.depth_buffer[i]
          /\ target.depth_buffer[i] # One

\* the Blit calls the step made
NewCalls == SubSeq(calls', Len(calls) + 1, Len(calls'))

\* the screen-space triangles of one color at a depth that the
\* interpolation reproduces exactly
PlainTris == {i \in 1..Len(ScreenTris) : ScreenTris[i] \in {Uniform(2, Red), Uniform(2, Blue)}}

\* C15: SetSampler changes the bound sampler only: no pixel and no depth
\* entry of the target changes, so pixels written by earlier draws keep the
\* color computed with the sampler bound then; and with the null sampler
\* bound a draw writes the interpolated vertex color without any texture
\* multiply (for a triangle of one color, that color).
C15_SetSamplerFrame ==
    [][/\ Calls("SetSampler") =>
              target' = target /\ calls' = calls /\ sampler' = last'.arg
       /\ Calls("BlitTriangle") /\ sampler = 0 /\ last'.arg \in PlainTris =>
              \A k \in 1..Len(NewCalls) :
                  NewCalls[k].depth # NaN =>
                      ToVec4(NewCalls[k].color) = ScreenTris[last'.arg][1].color]_vars

\* the null sampler bound after a draw with a texture: the pixels of that
\* draw still show the blended color
C15_Witness ==
    /\ last.op = "SetSampler"
    /\ last.arg = 0
    /\ sampler = 0
    /\ target = last.before
    /\ \E i \in 1..(TargetW * TargetH) :
          /\ target.depth_buffer[i] # One
          /\ target.surface.px[i] \notin {Black, Red, Green, Blue, Gray, Orange}

\* every entry of the depth buffer is 1
AllOnes(t) == \A i \in DOMAIN t.depth_buffer : t.depth_buffer[i] = One

\* C16: ClearDepth sets every depth entry to 1 and leaves every pixel as it
\* was; a newly constructed Target has one depth entry per pixel of its
\* surface, all 1; ClearSurface leaves the depth buffer as it was.
C16_ClearFrame ==
    /\ last.op = "new" =>
          /\ DOMAIN target.depth_buffer = 1..(target.surface.w * target.surface.h)
          /\ DOMAIN target.depth_buffer = DOMAIN target.surface.px
          /\ AllOnes(target)
    /\ last.op = "ClearDepth" =>
          /\ DOMAIN target.depth_buffer = DOMAIN last.before.depth_buffer
          /\ AllOnes(target)
          /\ target.surface = last.before.surface
    /\ last.op = "ClearSurface" =>
          /\ target.depth_buffer = last.before.depth_buffer
          /\ target.surface.w = last.before.surface.w
          /\ target.surface.h = last.before.surface.h

\* ClearDepth called on a target that holds drawn pixels and lowered depths
C16_Witness ==
    /\ last.op = "ClearDepth"
    /\ ~AllOnes(last.before)
    /\ \E i \in DOMAIN target.surface.px : target.surface.px[i] # Black

\* the value of a float below 256 in units of 2^-23, as an integer
Scaled(x) ==
    IF x = Zero THEN 0
    ELSE IF x[2] >= -23 THEN x[1] * 2^(x[2] + 23)
    ELSE x[1] \div 2^(0 - 23 - x[2])

\* the exact sum, in units of 2^-23, of the pitch deltas from call i on
RECURSIVE DeltaSum(_, _)
DeltaSum(turns, i) ==
    IF i > Len(turns) THEN 0 ELSE Scaled(turns[i][1]) + DeltaSum(turns, i + 1)

\* the pitch p after each pitch delta from call i on was added to it in turn
RECURSIVE AddedInTurn(_, _, _)
AddedInTurn(p, turns, i) ==
    IF i > Len(turns) THEN p
    ELSE LET q == FAdd(p, turns[i][1]) IN AddedInTurn(q, turns, i + 1)

InYawRange(x) == FLe(FNeg(YawLimit), x) /\ FLe(x, YawLimit)

NaNYawDelta == \E i \in 1..Len(calls) : calls[i][2] = NaN

\* C17 as stated: after any sequence of Turn calls the yaw lies in
\* [-89.9, 89.9], the pitch is its initial value plus the sum of all pitch
\* deltas, and the position is the initial one.
C17_TurnClamps ==
    nops >= 1 =>
        /\ InYawRange(out.yaw)
        /\ Scaled(out.pitch) = Scaled(inp.pitch) + DeltaSum(calls, 1)
        /\ out.pos = inp.pos

\* C17 amended: after one or more Turn calls on a camera with a finite yaw,
\* the yaw lies in [-89.9f, 89.9f] if no yaw delta was NaN and is NaN
\* otherwise; the pitch is the initial pitch with each pitch delta added in
\* turn in single precision, which is within one rounding per call (2^-17
\* below 256) of the exact sum and is not clamped; the position is the
\* initial one.
C17_TurnClampsRounded ==
    nops >= 1 =>
        /\ IF NaNYawDelta THEN out.yaw = NaN ELSE InYawRange(out.yaw)
        /\ out.pitch = AddedInTurn(inp.pitch, calls, 1)
        /\ Abs(Scaled(out.pitch) - Scaled(inp.pitch) - DeltaSum(calls, 1)) <= 64 * nops
        /\ out.pos = inp.pos

\* the yaw held at the upper limit by the clamp while the pitch, turned the
\* same number of times, has passed that limit and is not the exact sum
C17_Witness ==
    /\ nops >= 2
    /\ last.op = "Turn"
    /\ out.yaw = YawLimit
    /\ FLt(YawLimit, FAdd(last.before.yaw, last.arg[2]))
    /\ FLt(YawLimit, out.pitch)
    /\ Scaled(out.pitch) # Scaled(inp.pitch) + DeltaSum(calls, 1)

InUnit(x) == FLe(Zero, x) /\ FLe(x, One)

\* C18: SDL_Sample returns opaque black for every (u, v) with u or v outside
\* [0, 1]; for (u, v) inside it returns the texel read at a pixel index
\* within the surface (x below w and y below h).
C18_SampleSentinel ==
    nops = 1 =>
        IF InUnit(inp.u) /\ InUnit(inp.v)
        THEN /\ out.read # <<>>
             /\ out.read[1] \in 0..(inp.surface.w - 1)
             /\ out.read[2] \in 0..(inp.surface.h - 1)
             /\ out.color = SDL_ReadPixel(inp.surface, out.read[1], out.read[2])
        ELSE out.color = Black /\ out.read = <<>>

\* the part of C18 for coordinates inside [0, 1] x [0, 1]
C18_InsideReadsTexel ==
    nops = 1 /\ InUnit(inp.u) /\ InUnit(inp.v) =>
        /\ out.read # <<>>
        /\ out.read[1] \in 0..(inp.surface.w - 1)
        /\ out.read[2] \in 0..(inp.surface.h - 1)
        /\ out.color = SDL_ReadPixel(inp.surface, out.read[1], out.read[2])

(***************************************************************************)
(* Triangles that are skipped                                              *)
(***************************************************************************)
\* twice the signed area of the triangle on the integer positions
Area2 == Cross2(inp.pts[1], inp.pts[2], inp.pts[3])

\* collinear vertices, of which three sharing one y are a case
ZeroArea == Area2 = 0

\* the orientation that is culled
WronglyWound == Area2 > 0

PlainVertex(x, y, z, u, v) ==
    MkVertex(FromInt(x), FromInt(y), FromInt(z), <<255, 255, 255, 255>>, <<FromInt(u), FromInt(v)>>)

ColoredVertex(x, y, z, u, v) ==
    MkVertex(FromInt(x), FromInt(y), FromInt(z), <<255, 128, 0, 255>>, <<FromInt(u), FromInt(v)>>)

\* the model each file describes, written out by hand
Described(filepath) ==
    IF filepath = "assets/empty.txt" THEN <<>>
    ELSE IF filepath = "assets/tri.txt"
    THEN << <<PlainVertex(-1, -1, 2, 0, 0), PlainVertex(1, -1, 2, 0, 0), PlainVertex(0, 1, 2, 0, 0)>> >>
    ELSE IF filepath = "assets/quad.txt"
    THEN << <<PlainVertex(0, 0, 3, 0, 0), PlainVertex(1, 0, 3, 1, 0), PlainVertex(1, 1, 3, 1, 1)>>,
            <<PlainVertex(0, 0, 3, 0, 0), PlainVertex(1, 1, 3, 1, 1), PlainVertex(0, 1, 3, 0, 1)>> >>
    ELSE << <<ColoredVertex(-2, -1, 1, 0, 0), ColoredVertex(1, -1, 1, 1, 0),
              ColoredVertex(0, 2, 1, 0, 1)>> >>

Opens(filepath) == filepath \in {"assets/empty.txt", "assets/tri.txt", "assets/quad.txt", "assets/colored.txt"}

BehindPlane == {k \in 1..3 : inp[k] < 1}

C22_ClippedInFront ==
    nops = 1 =>
        \A i \in 1..Len(out.tree) : \A k \in 1..3 : FLt(Zero, out.tree[i].verts[k].pos[3])

\* the same, for triangles with no vertex at -2^21
C22_ClippedInFrontNear ==
    nops = 1 /\ (\A k \in 1..3 : inp[k] >= 0 - 10) =>
        \A i \in 1..Len(out.tree) : \A k \in 1..3 : FLt(Zero, out.tree[i].verts[k].pos[3])

(***************************************************************************)
(* Winding order of the halves of a split                                  *)
(***************************************************************************)
\* every call made by a call that split its triangle has the drawn winding
\* order and is not rejected
HalvesKeepWinding ==
    \A i \in 1..Len(Tree) :
        Tree[i].branch = "general" =>
            \A j \in Children(i) :
                GetWindingOrder(Tree[j].verts) = DrawnWinding /\ Tree[j].branch # "reject"

\* C23: when BlitTriangle splits a triangle that passed the cull, both
\* triangles it recurses on have the parent's winding order, the drawn one,
\* and neither is rejected in the recursive call, in whichever order the
\* parent's vertices came.
C23_SplitKeepsWinding == nops = 1 => HalvesKeepWinding

\* the same, for the triangles on the integer positions
C23_SplitKeepsWindingOnGrid == nops = 1 /\ inp.pts # <<>> => HalvesKeepWinding
(***************************************************************************)
(* The winding order and the cross product                                 *)
(***************************************************************************)
Given == <<1, 2, 3>>
Rotations == {<<2, 3, 1>>, <<3, 1, 2>>}
Swaps == {<<2, 1, 3>>, <<3, 2, 1>>, <<1, 3, 2>>}

\* the cross product of the edges vertex0->vertex1 and vertex0->vertex2
EdgeCross == Cross2(inp.pts[1], inp.pts[2], inp.pts[3])

\* the winding order is the same from each vertex in turn
RotationKeeps == \A r \in Rotations : out[r] = out[Given]

\* exchanging two vertices negates the winding order
SwapNegates == \A s \in Swaps : out[s] = 0 - out[Given]

\* the positions are small integers: every difference, product and sum
\* in GetWindingOrder is exact
OnGrid == inp.pts # <<>> /\ inp.pts # LongPoints

\* C24: GetWindingOrder returns the sign of the cross product of the edges
\* vertex0->vertex1 and vertex0->vertex2: 0 exactly when the positions are
\* collinear, unchanged by a cyclic rotation of the vertices and negated by
\* swapping any two.
C24_WindingIsCross ==
    nops = 1 =>
        /\ inp.pts # <<>> => out[Given] = Sgn(EdgeCross)
        /\ RotationKeeps
        /\ SwapNegates

\* C24 amended: for positions whose differences and products are exact in
\* single precision, GetWindingOrder returns the sign of the cross product
\* of the edges vertex0->vertex2 and vertex0->vertex1, the negative of the
\* one above: 0 exactly when the positions are collinear, unchanged by a
\* cyclic rotation and negated by swapping any two vertices.
C24_WindingIsNegatedCross ==
    nops = 1 /\ OnGrid =>
        /\ out[Given] = 0 - Sgn(EdgeCross)
        /\ out[Given] = 0 <=> EdgeCross = 0
        /\ RotationKeeps
        /\ SwapNegates

\* a triangle of positive cross product: -1 in the order given and from
\* each vertex, 1 with two vertices exchanged
C24_Witness ==
    /\ nops = 1
    /\ OnGrid
    /\ EdgeCross > 0
    /\ out[Given] = 0 - 1
    /\ out[<<2, 3, 1>>] = 0 - 1
    /\ out[<<2, 1, 3>>] = 1

\* the same two properties for every input
C24_RotationAndSwap == nops = 1 => RotationKeeps /\ SwapNegates

\* 0 exactly when collinear, for every integer input
C24_ZeroIffCollinear == nops = 1 /\ inp.pts # <<>> => (out[Given] = 0 <=> EdgeCross = 0)
(***************************************************************************)
(* Stored depths between two ClearDepth calls                              *)
(***************************************************************************)
DrawOps == {"Blit", "BlitTriangle", "Blit3DModel"}

\* the pixels whose stored depth the last step lowered
Lowered == {i \in 1..(TargetW * TargetH) : FLt(target.depth_buffer[i], last.before.depth_buffer[i])}

\* C25: between two ClearDepth calls every depth-buffer entry is
\* non-increasing: no step other than ClearDepth raises a stored depth, and
\* in a Blit, BlitTriangle or Blit3DModel step a pixel's color changes only
\* if the step strictly lowers that pixel's stored depth.
C25_DepthsOnlyFall ==
    /\ last.op # "ClearDepth" =>
          \A i \in 1..(TargetW * TargetH) :
              FLe(target.depth_buffer[i], last.before.depth_buffer[i])
    /\ last.op \in DrawOps =>
          \A i \in 1..(TargetW * TargetH) :
              target.surface.px[i] # last.before.surface.px[i] => i \in Lowered

\* a draw over pixels earlier draws had written: one is overwritten with a
\* lower depth and another color, one keeps its depth and color
C25_Witness ==
    /\ last.op \in DrawOps
    /\ \E i \in Lowered :
          /\ FLt(last.before.depth_buffer[i], One)
          /\ target.surface.px[i] # last.before.surface.px[i]
    /\ \E i \in 1..(TargetW * TargetH) :
          /\ FLt(last.before.depth_buffer[i], One)
          /\ target.depth_buffer[i] = last.before.depth_buffer[i]
          /\ target.surface.px[i] = last.before.surface.px[i]
(***************************************************************************)
(* A model drawn twice                                                     *)
(***************************************************************************)
\* C26: drawing the same model twice in a row with the same camera, screen
\* and transform, without clearing the depth buffer in between, leaves the
\* target's pixels and depths as the first draw left them, whichever
\* sampler is bound for the second draw.
C26_SecondDrawIdle == nops = 3 => target = out

\* the first draw wrote pixels on a cleared target, and the second one is
\* made under another sampler, with other colors
C26_Witness ==
    /\ nops = 3
    /\ out.depth_buffer # [i \in 1..(TargetW * TargetH) |-> One]
    /\ inp.first # inp.second
    /\ CallsOf(memo.model[inp.first + 1][inp.d]) # CallsOf(memo.model[inp.second + 1][inp.d])
    /\ target = out
(***************************************************************************)
(* The far end of the depth range                                          *)
(***************************************************************************)
\* the calls whose interpolated view depth is 10000 or more
Beyond == {k \in 1..Len(out) : FLe(FromInt(10000), out[k].z)}

\* the calls for the pixel i
AtPixel(i) == {k \in 1..Len(out) : InBounds(out[k].x, out[k].y) /\ PixelIndex(out[k].x, out[k].y) = i}

\* C27: on a target whose depth buffer was cleared to 1.0, a pixel whose
\* interpolated view-space z is 10000 or more is never written: the depth
\* z / 10000 passed to Blit is not strictly less than 1.0, and the pixel
\* keeps its color and its depth of 1.0.
C27_BeyondUnwritten ==
    nops = 1 =>
        /\ \A k \in Beyond : ~FLt(out[k].depth, One)
        /\ \A i \in 1..(RasterW * RasterH) :
              AtPixel(i) # {} /\ AtPixel(i) \subseteq Beyond =>
                  /\ target.surface.px[i] = Black
                  /\ target.depth_buffer[i] = One

\* a triangle reaching across z = 10000: the pixels before it are written,
\* one with z of exactly 10000 and the ones beyond are not
C27_Witness ==
    /\ nops = 1
    /\ \E k \in Beyond :
          /\ out[k].z = FromInt(10000)
          /\ InBounds(out[k].x, out[k].y)
          /\ target.surface.px[PixelIndex(out[k].x, out[k].y)] = Black
    /\ \E k \in Beyond : out[k].z # FromInt(10000) /\ InBounds(out[k].x, out[k].y)
    /\ \E k \in 1..Len(out) :
          /\ k \notin Beyond
          /\ InBounds(out[k].x, out[k].y)
          /\ target.surface.px[PixelIndex(out[k].x, out[k].y)] # Black
(***************************************************************************)
(* The columns of a scan row                                               *)
(***************************************************************************)
\* the rounded edge columns x1, x2 of the row of call k
RowX1(k) == Trunc(out[k].row[2])
RowX2(k) == Trunc(out[k].row[3])

\* the columns handed to Target::Blit in the row of call k
Columns(k) == {out[j].x : j \in {i \in 1..Len(out) : out[i].row = out[k].row /\ out[i].y = out[k].y}}

Max(a, b) == IF a > b THEN a ELSE b

\* C28: in every scan row of a flat triangle the pixel columns handed to
\* Target::Blit are exactly the integers from max(x1, 0) through
\* min(x2, W - 1), for x1, x2 the rounded edge columns of the row and W the
\* clip width, whether the left edge is on-screen or off-screen.
C28_ColumnsOfRow ==
    nops = 1 =>
        \A k \in 1..Len(out) : Columns(k) = Max(RowX1(k), 0)..Min(RowX2(k), RasterW - 1)

\* what the loop does: from x1 through min(x2, W - 1) when x1 >= 1, and
\* from 0 through min(x2 - 1, W - 1) when x1 <= 0
C28_ColumnsByLeftEdge ==
    nops = 1 =>
        \A k \in 1..Len(out) :
            Columns(k) = IF RowX1(k) >= 1 THEN RowX1(k)..Min(RowX2(k), RasterW - 1)
                         ELSE 0..Min(RowX2(k) - 1, RasterW - 1)
(***************************************************************************)
(* Pixel coordinates passed to Target::Blit                                *)
(***************************************************************************)
\* the x, y of every vertex of the triangle drawn are integers
IntegerInput == \A k \in 1..3 : inp[k][1] % 2 = 0 /\ inp[k][2] % 2 = 0

\* the triangle reaches outside the viewport
ReachesOut ==
    \E k \in 1..3 :
        inp[k][1] < 0 \/ inp[k][1] > 2 * RasterW \/ inp[k][2] < 0 \/ inp[k][2] > 2 * RasterH

C30_OnBorder == nops = 1 /\ \E k \in 1..Len(out) : out[k].y = RasterH
(***************************************************************************)
(* The pixel rows of a drawn triangle                                      *)
(***************************************************************************)
\* the scan rows made: <<i, j>> is the j-th row of call i
Scanned == UNION {{<<i, j>> : j \in 1..Len(memo[i])} : i \in 1..Len(memo)}

\* the scan rows that visit the pixel row r
Visits(r) == {p \in Scanned : memo[p[1]][p[2]] = r}

\* the pixel rows visited by call i
RowSet(i) == {memo[i][j] : j \in 1..Len(memo[i])}

\* the least, middle and greatest y of the vertices
Ys == {inp.pts[k][2] : k \in 1..3}
MinY == CHOOSE y \in Ys : \A z \in Ys : y <= z
MaxY == CHOOSE y \in Ys : \A z \in Ys : y >= z
MidY == CHOOSE y \in Ys : Cardinality(Ys) < 3 \/ (y # MinY /\ y # MaxY)

\* a triangle on integer positions inside the viewport was handed to
\* BlitTriangle and passed the rejects
DrawnOnGrid ==
    /\ nops = 1
    /\ last.op = "BlitTriangle"
    /\ inp.pts # <<>>
    /\ Tree[1].branch # "reject"

\* C29: for a drawn triangle with integer screen Y inside the viewport,
\* each pixel row in [minY, maxY) is visited by exactly one scan row and no
\* other row is visited; the two halves of a split triangle cover
\* [v1.y, v2.y) and [v2.y, v3.y).
C29_RowsOnce ==
    DrawnOnGrid =>
        /\ \A p \in Scanned : memo[p[1]][p[2]] \in MinY..(MaxY - 1)
        /\ \A r \in MinY..(MaxY - 1) : Cardinality(Visits(r)) = 1
        /\ Tree[1].branch = "general" =>
              /\ \E i \in 1..Len(memo) : memo[i] # <<>> /\ RowSet(i) = MinY..(MidY - 1)
              /\ \E i \in 1..Len(memo) : memo[i] # <<>> /\ RowSet(i) = MidY..(MaxY - 1)

\* a split triangle: each half scans its rows, and the pixels are written
C29_Witness ==
    /\ DrawnOnGrid
    /\ Tree[1].branch = "general"
    /\ MinY + 1 < MidY /\ MidY + 1 < MaxY
    /\ Cardinality({i \in 1..Len(memo) : memo[i] # <<>>}) = 2
    /\ \A r \in MinY..(MaxY - 1) : \E k \in 1..Len(out) : out[k].y = r
    /\ target # last.before

\* every Blit call is made in a pixel row that a scan row of the call tree
\* visits
C29_CallsInRows ==
    nops = 1 => \A k \in 1..Len(out) : Visits(out[k].y) # {}

====
